---- MODULE Spec2Model ----
(***************************************************************************)
(* The per-vnode storage engine of tskv (src/tskv/src/tseries_family.rs):  *)
(* ColumnFile, LevelInfo, Version, SuperVersion, TseriesFamily, and the    *)
(* application of VersionEdits to a Version.                               *)
(*                                                                         *)
(* Shared objects (Arc<...>) live in heaps: a handle is an index into the  *)
(* heap sequence, so two handles denote the same object iff they are the   *)
(* same index, and a mutation through one handle is seen through all.      *)
(***************************************************************************)
EXTENDS Integers, Sequences, FiniteSets, TLC

VARIABLES
    files,      \* heap of ColumnFile objects (Arc<ColumnFile>)
    versions,   \* heap of Version objects (Arc<Version>)
    caches,     \* heap of MemCache objects (Arc<RwLock<MemCache>>)
    svs,        \* heap of SuperVersion objects (Arc<SuperVersion>)
    tsf,        \* the TseriesFamily (vnode)
    chan,       \* flush_task_sender: the FlushReqs sent and not yet taken
    pending,    \* a Version built by copy_apply_version_edits, not yet installed
    reader,     \* a reader that acquired a SuperVersion with super_version()
    next_seq,   \* the write sequence number the ingest path hands out next
    next_file_id, \* the global ColumnFileId allocator
    again,      \* the Version a second, identical copy_apply_version_edits built
    stepwise,   \* the Version built by applying the edits of the batch one by one
    vs_in,      \* the meta accessor and the ver_set VersionSet::new was given,
                \* kept until the VersionSet is first changed
    vs,         \* the Result of VersionSet::new; its value is the VersionSet
    tomb,       \* the tombstone files and the add_tombstone calls under way
    compact_req, \* a CompactReq picked for the vnode and not yet dropped
    unlinked,   \* for each ColumnFile object, the remove_file calls of its drop
    probe,      \* the arguments of a call of a method that changes no state
                \* and, once it has run, what it returned
    meta_client \* the RemoteMetaClient of one tenant: its cached
                \* TenantMetaData, where its watch_data thread stands, and
                \* the write requests the meta service has not yet answered

vars == <<files, versions, caches, svs, tsf, chan, pending, reader, next_seq,
          next_file_id, again, stepwise, vs_in, vs, tomb, compact_req, unlinked,
          probe, meta_client>>

\* the variables of the one vnode
vnode_vars == <<files, versions, caches, svs, tsf, chan, pending, reader, next_seq,
                next_file_id, again, stepwise, compact_req, unlinked>>

----------------------------------------------------------------------------
(* Bounds of the model. *)

\* file ids of the edits drawn as inputs are 1..MaxFileId
MaxFileId == 2
\* total number of add_files / del_files entries in one batch of VersionEdits
MaxEntries == 2
\* write sequence numbers handed to put_points are 1..MaxSeq
MaxSeq == 1
\* MemCache objects ever allocated for the vnode
MaxCaches == 3
\* FlushReqs waiting on the flush channel
MaxQueue == 1
\* calls of copy_apply_version_edits on the vnode's Version
MaxApplies == 1
\* the vnodes of the VersionSet have ids 1..MaxVnodes
MaxVnodes == 2
\* last_seq of the Versions of the VersionSet's vnodes is 0..MaxLastSeq
MaxLastSeq == 2
\* concurrent callers of add_tombstone
MaxCallers == 2
\* the timestamps of the TimeRanges compared are 0..MaxTs and the two
\* extremes
MaxTs == 2
\* the data blocks of a field that a tsm file holds in a time range
MaxBlocks == 2
\* the versions of the tenant metadata the meta service sends are
\* 0..MaxVersion
MaxVersion == 3
\* the databases of the tenant are 1..MaxDbs
MaxDbs == 1

----------------------------------------------------------------------------
(* Program constants. *)

\* Timestamp::MAX and Timestamp::MIN (i64). Timestamps are only compared,
\* never added, so the extremes of TLC's integers stand for them.
TimestampMAX == 2147483647
TimestampMIN == -2147483647

\* cache_opt.max_buffer_size, counted in row groups, and
\* cache_opt.max_immutable_number, as configured for the vnode
MaxBufferSize == 1
MaxImmutableNumber == 1

\* levels_info: [LevelInfo; 5]
NumLevels == 5

\* the vnode id (tf_id) of the one vnode modelled
TfId == 1

Min(a, b) == IF a <= b THEN a ELSE b
Max(a, b) == IF a >= b THEN a ELSE b

\* Option<T>: None is the empty sequence, Some(x) is <<x>>
None == <<>>
Some(x) == <<x>>

----------------------------------------------------------------------------
(* TimeRange *)

TimeRangeNew(min_ts, max_ts) == [min_ts |-> min_ts, max_ts |-> max_ts]

\* overlaps as it would be with <= in place of < in its second test
OverlapsOrTouches(self, range) ==
    ~(self.min_ts > range.max_ts \/ self.max_ts <= range.min_ts)

Overlaps(self, range) == ~(self.min_ts > range.max_ts \/ self.max_ts < range.min_ts)

\* includes as it would be without its test of max_ts
IncludesStart(self, other) == self.min_ts <= other.min_ts

Includes(self, other) == self.min_ts <= other.min_ts /\ self.max_ts >= other.max_ts

TimeRangeAll == TimeRangeNew(TimestampMIN, TimestampMAX)

----------------------------------------------------------------------------
(* ColumnFile *)

ColumnFileNew(file_id, level, time_range, size, is_delta) ==
    [file_id |-> file_id, level |-> level, is_delta |-> is_delta,
     time_range |-> time_range, size |-> size,
     deleted |-> FALSE, compacting |-> FALSE]

WithCompactData(meta) ==
    ColumnFileNew(meta.file_id, meta.level, TimeRangeNew(meta.min_ts, meta.max_ts),
                  meta.file_size, meta.is_delta)

\* mark_deleted as it would be if it also cleared the compacting flag
MarkDeletedClearCompacting(heap, h) ==
    [heap EXCEPT ![h].deleted = TRUE, ![h].compacting = FALSE]

\* mark_deleted on the object behind handle h
MarkDeleted(heap, h) == [heap EXCEPT ![h].deleted = TRUE]

\* mark_compacting on the object behind handle h
MarkCompacting(heap, h) == [heap EXCEPT ![h].compacting = TRUE]

\* drop as it would be without the is_deleted test
DropColumnFileAlways(file) == 1

\* drop of a ColumnFile: the number of remove_file calls it makes
DropColumnFile(file) == IF file.deleted THEN 1 ELSE 0

IsDeleted(heap, h) == heap[h].deleted

----------------------------------------------------------------------------
(* LevelInfo *)

LevelInfoInit(level, tsf_id) ==
    [files |-> <<>>, tsf_id |-> tsf_id, level |-> level, cur_size |-> 0,
     time_range |-> TimeRangeNew(TimestampMAX, TimestampMIN)]

InitLevels(tsf_id) ==
    <<LevelInfoInit(0, tsf_id), LevelInfoInit(1, tsf_id), LevelInfoInit(2, tsf_id),
      LevelInfoInit(3, tsf_id), LevelInfoInit(4, tsf_id)>>

\* the place of h in a list sorted by file_id: behind every entry whose
\* file_id is not greater (sort_by is a stable sort)
RECURSIVE InsertSorted(_, _, _)
InsertSorted(heap, sorted, h) ==
    IF sorted = <<>> THEN <<h>>
    ELSE IF heap[Head(sorted)].file_id <= heap[h].file_id
         THEN <<Head(sorted)>> \o InsertSorted(heap, Tail(sorted), h)
         ELSE <<h>> \o sorted

\* sort_file_asc as it would be if it left the list as it is
SortFileAscNone(heap, fs) == fs

RECURSIVE SortFileAsc(_, _)
SortFileAsc(heap, fs) ==
    IF fs = <<>> THEN <<>>
    ELSE InsertSorted(heap, SortFileAsc(heap, SubSeq(fs, 1, Len(fs) - 1)), fs[Len(fs)])

\* push_column_file as it would be without the addition to cur_size
PushColumnFileNoSize(heap, lvl, h) ==
    [lvl EXCEPT
        !.time_range = TimeRangeNew(Min(@.min_ts, heap[h].time_range.min_ts),
                                    Max(@.max_ts, heap[h].time_range.max_ts)),
        !.files = SortFileAsc(heap, Append(@, h))]

PushColumnFile(heap, lvl, h) ==
    [lvl EXCEPT
        !.cur_size = @ + heap[h].size,
        !.time_range = TimeRangeNew(Min(@.min_ts, heap[h].time_range.min_ts),
                                    Max(@.max_ts, heap[h].time_range.max_ts)),
        !.files = SortFileAsc(heap, Append(@, h))]

\* allocates the ColumnFile of compact_meta: the result is the heap with the
\* new object and the level holding its handle
PushCompactMeta(heap, lvl, compact_meta) ==
    LET heap2 == Append(heap, WithCompactData(compact_meta))
        h == Len(heap2)
    IN [heap |-> heap2,
        lvl |-> [lvl EXCEPT
                    !.files = SortFileAsc(heap2, Append(@, h)),
                    !.tsf_id = compact_meta.tsf_id,
                    !.cur_size = @ + compact_meta.file_size,
                    !.time_range = TimeRangeNew(Min(@.min_ts, compact_meta.min_ts),
                                                Max(@.max_ts, compact_meta.max_ts))]]

RECURSIVE ScanTimeRange(_, _, _)
ScanTimeRange(heap, fs, acc) ==
    IF fs = <<>> THEN acc
    ELSE ScanTimeRange(heap, Tail(fs),
                       TimeRangeNew(Min(acc.min_ts, heap[Head(fs)].time_range.min_ts),
                                    Max(acc.max_ts, heap[Head(fs)].time_range.max_ts)))

\* update_time_range as it would be if it did not scan the files
UpdateTimeRangeNoScan(heap, lvl) ==
    [lvl EXCEPT !.time_range = TimeRangeNew(TimestampMAX, TimestampMIN)]

UpdateTimeRange(heap, lvl) ==
    [lvl EXCEPT !.time_range =
        ScanTimeRange(heap, lvl.files, TimeRangeNew(TimestampMAX, TimestampMIN))]

\* the files of the level that read_column_file opens for time_range, in
\* order: those not marked deleted whose range overlaps
ReadColumnFile(heap, lvl, time_range) ==
    SelectSeq(lvl.files,
              LAMBDA h : ~(IsDeleted(heap, h) \/ ~Overlaps(heap[h].time_range, time_range)))

\* the two inner loops of read_column_file over the blocks b.. of the file
\* file_id, whose reader is open: a block that get_data_block returns is
\* pushed to data, one it fails on is passed over. io tells which calls
\* fail; attempts lists the calls made.
RECURSIVE ReadBlocks(_, _, _, _)
ReadBlocks(file_id, b, io, r) ==
    IF b > MaxBlocks THEN r
    ELSE LET ok == io.fail_block # <<file_id, b>>
             blk == [file_id |-> file_id, block |-> b]
         IN ReadBlocks(file_id, b + 1, io,
                       [r EXCEPT !.data = IF ok THEN Append(@, blk) ELSE @,
                                 !.attempts = Append(@, [call |-> "get_data_block",
                                                         file_id |-> file_id,
                                                         block |-> b, ok |-> ok])])

\* the outer loop of read_column_file as it would be if a failed open
\* returned the blocks collected so far
RECURSIVE ReadFilesKeepData(_, _, _, _, _)
ReadFilesKeepData(heap, fs, k, io, r) ==
    IF k > Len(fs) THEN r
    ELSE LET file_id == heap[fs[k]].file_id
             opened == [r EXCEPT !.attempts = Append(@, [call |-> "open",
                                                         file_id |-> file_id,
                                                         block |-> 0,
                                                         ok |-> io.fail_open # file_id])]
         IN IF io.fail_open = file_id
            THEN [opened EXCEPT !.logged = TRUE]
            ELSE ReadFilesKeepData(heap, fs, k + 1, io, ReadBlocks(file_id, 1, io, opened))

\* the outer loop of read_column_file over the files fs[k..] it does not
\* skip: if TsmReader::open fails the error is logged and vec![] returned
RECURSIVE ReadFiles(_, _, _, _, _)
ReadFiles(heap, fs, k, io, r) ==
    IF k > Len(fs) THEN r
    ELSE LET file_id == heap[fs[k]].file_id
             opened == [r EXCEPT !.attempts = Append(@, [call |-> "open",
                                                         file_id |-> file_id,
                                                         block |-> 0,
                                                         ok |-> io.fail_open # file_id])]
         IN IF io.fail_open = file_id
            THEN [opened EXCEPT !.data = <<>>, !.logged = TRUE]
            ELSE ReadFiles(heap, fs, k + 1, io, ReadBlocks(file_id, 1, io, opened))

\* LevelInfo::read_column_file(&self, tf_id, field_id, time_range): data is
\* the Vec<DataBlock> returned
ReadColumnFileOp(heap, lvl, time_range, io) ==
    ReadFiles(heap, ReadColumnFile(heap, lvl, time_range), 1, io,
              [data |-> <<>>, attempts |-> <<>>, logged |-> FALSE])

RECURSIVE PushCompactMetas(_, _, _)
PushCompactMetas(heap, lvl, metas) ==
    IF metas = <<>> THEN [heap |-> heap, lvl |-> lvl]
    ELSE LET r == PushCompactMeta(heap, lvl, Head(metas))
         IN PushCompactMetas(r.heap, r.lvl, Tail(metas))

\* LevelInfo::with_compact_metas: levels[c.level].push_compact_meta(c) for
\* each c in order (every c.level is a valid index, or the call panics)
RECURSIVE WithCompactMetas(_, _, _)
WithCompactMetas(heap, levels, compact_metas) ==
    IF compact_metas = <<>> THEN [heap |-> heap, levels |-> levels]
    ELSE LET c == Head(compact_metas)
             r == PushCompactMeta(heap, levels[c.level + 1], c)
         IN WithCompactMetas(r.heap, [levels EXCEPT ![c.level + 1] = r.lvl],
                             Tail(compact_metas))

----------------------------------------------------------------------------
(* summary::CompactMeta and summary::VersionEdit, as far as               *)
(* copy_apply_version_edits reads them                                     *)

CompactMetaNew(file_id, level, min_ts, max_ts, file_size) ==
    [file_id |-> file_id, file_size |-> file_size, tsf_id |-> TfId, level |-> level,
     min_ts |-> min_ts, max_ts |-> max_ts, is_delta |-> (level = 0)]

DelFileNew(level, file_id) == [file_id |-> file_id, level |-> level, is_delta |-> (level = 0)]

VersionEditNew(add_files, del_files) == [add_files |-> add_files, del_files |-> del_files]

\* CompactMeta::from(&ColumnFile): the file's id, size, level, time range
\* and is_delta; tsf_id and high_seq are left at their defaults
CompactMetaFrom(file) ==
    [file_id |-> file.file_id, file_size |-> file.size, tsf_id |-> 0,
     level |-> file.level, min_ts |-> file.time_range.min_ts,
     max_ts |-> file.time_range.max_ts, is_delta |-> file.is_delta, high_seq |-> 0]

\* VersionEdit::new_add_vnode(vnode_id, owner)
VersionEditNewAddVnode(vnode_id, owner) ==
    [add_files |-> <<>>, del_files |-> <<>>, add_tsf |-> TRUE, del_tsf |-> FALSE,
     tsf_id |-> vnode_id, tsf_name |-> owner, max_level_ts |-> TimestampMIN]

\* VersionEdit::add_file(compact_meta, max_level_ts)
VersionEditAddFile(self, compact_meta, max_level_ts) ==
    [self EXCEPT !.add_files = Append(@, compact_meta),
                 !.tsf_id = compact_meta.tsf_id,
                 !.max_level_ts = max_level_ts]

----------------------------------------------------------------------------
(* Version *)

VersionNew(ts_family_id, last_seq, levels_info, max_level_ts) ==
    [ts_family_id |-> ts_family_id, last_seq |-> last_seq,
     max_level_ts |-> max_level_ts, levels_info |-> levels_info]

\* the add_files of all edits, in the order of the batch
RECURSIVE AllAddFiles(_)
AllAddFiles(version_edits) ==
    IF version_edits = <<>> THEN <<>>
    ELSE Head(version_edits).add_files \o AllAddFiles(Tail(version_edits))

RECURSIVE AllDelFiles(_)
AllDelFiles(version_edits) ==
    IF version_edits = <<>> THEN <<>>
    ELSE Head(version_edits).del_files \o AllDelFiles(Tail(version_edits))

\* added_files as it would be if every level were given the add_files of
\* all levels
AddedFilesAnyLevel(version_edits, level) == AllAddFiles(version_edits)

\* added_files: HashMap<LevelId, Vec<CompactMeta>>, the entry of level
AddedFiles(version_edits, level) ==
    SelectSeq(AllAddFiles(version_edits), LAMBDA f : f.level = level)

\* deleted_files: HashMap<LevelId, HashSet<ColumnFileId>>, the entry of level
DeletedFiles(version_edits, level) ==
    LET dels == AllDelFiles(version_edits)
    IN {dels[i].file_id : i \in {j \in 1..Len(dels) : dels[j].level = level}}

\* the loop over level.files as it would be if a del_files entry removed the
\* file of its file_id from every level
RECURSIVE ApplyLevelFilesAnyLevel(_, _, _, _)
ApplyLevelFilesAnyLevel(heap, new_lvl, fs, version_edits) ==
    IF fs = <<>> THEN [heap |-> heap, lvl |-> new_lvl]
    ELSE LET file == Head(fs)
         IN IF \E l \in 0..NumLevels : heap[file].file_id \in DeletedFiles(version_edits, l)
            THEN ApplyLevelFilesAnyLevel(MarkDeleted(heap, file), new_lvl, Tail(fs),
                                         version_edits)
            ELSE ApplyLevelFilesAnyLevel(heap, PushColumnFile(heap, new_lvl, file),
                                         Tail(fs), version_edits)

\* the loop over the files of one source level: a file named by
\* deleted_files[file.level] is marked deleted and dropped, the others are
\* pushed to the new level
RECURSIVE ApplyLevelFiles(_, _, _, _)
ApplyLevelFiles(heap, new_lvl, fs, version_edits) ==
    IF fs = <<>> THEN [heap |-> heap, lvl |-> new_lvl]
    ELSE LET file == Head(fs)
         IN IF heap[file].file_id \in DeletedFiles(version_edits, heap[file].level)
            THEN ApplyLevelFiles(MarkDeleted(heap, file), new_lvl, Tail(fs), version_edits)
            ELSE ApplyLevelFiles(heap, PushColumnFile(heap, new_lvl, file), Tail(fs),
                                 version_edits)

\* the loop over self.levels_info; taken holds the levels whose added_files
\* entry was removed
RECURSIVE ApplyLevels(_, _, _, _, _)
ApplyLevels(heap, new_levels, levels, version_edits, taken) ==
    IF levels = <<>> THEN [heap |-> heap, levels |-> new_levels]
    ELSE LET level == Head(levels)
             i == level.level + 1
             kept == ApplyLevelFiles(heap, new_levels[i], level.files, version_edits)
             adds == IF level.level \in taken THEN <<>>
                     ELSE AddedFiles(version_edits, level.level)
             added == PushCompactMetas(kept.heap, kept.lvl, adds)
         IN ApplyLevels(added.heap,
                        [new_levels EXCEPT ![i] = UpdateTimeRange(added.heap, added.lvl)],
                        Tail(levels), version_edits, taken \cup {level.level})

RECURSIVE MaxFileTs(_, _, _)
MaxFileTs(heap, fs, acc) ==
    IF fs = <<>> THEN acc
    ELSE MaxFileTs(heap, Tail(fs), Max(heap[Head(fs)].time_range.max_ts, acc))

RECURSIVE MaxLevelsTs(_, _, _)
MaxLevelsTs(heap, levels, acc) ==
    IF levels = <<>> THEN acc
    ELSE MaxLevelsTs(heap, Tail(levels), MaxFileTs(heap, Head(levels).files, acc))

\* update_max_level_ts as it would be if the scan started from the
\* max_level_ts copied from the source Version
UpdateMaxLevelTsFromSource(heap, v) ==
    [v EXCEPT !.max_level_ts = MaxLevelsTs(heap, v.levels_info, v.max_level_ts)]

UpdateMaxLevelTs(heap, v) ==
    [v EXCEPT !.max_level_ts = MaxLevelsTs(heap, v.levels_info, TimestampMIN)]

\* Version::copy_apply_version_edits(&self, version_edits, last_seq): the
\* result is the new Version together with the heap of ColumnFiles as the
\* call leaves it
CopyApplyVersionEdits(heap, self, version_edits, last_seq) ==
    LET r == ApplyLevels(heap, InitLevels(self.ts_family_id), self.levels_info,
                         version_edits, {})
        new_version == [ts_family_id |-> self.ts_family_id,
                        last_seq |-> IF last_seq = None THEN self.last_seq
                                     ELSE last_seq[1],
                        max_level_ts |-> self.max_level_ts,
                        levels_info |-> r.levels]
    IN [heap |-> r.heap, version |-> UpdateMaxLevelTs(r.heap, new_version)]

----------------------------------------------------------------------------
(* MemCache: what the vnode reads and writes of it *)

MemCacheNew(tf_id, max_size, seq) ==
    [tf_id |-> tf_id, max_size |-> max_size, seq_no |-> seq, rows |-> {},
     flushing |-> FALSE, flushed |-> FALSE]

\* write_group(sid, seq, group) for each series of points
\* each row group holds the timestamps of its rows
WriteGroups(cache, seq, points) ==
    [cache EXCEPT !.rows = @ \cup {[sid |-> g.sid, seq |-> seq, tss |-> g.tss] :
                                      g \in points}]

\* get_data(sid, ..): the timestamps of the rows the cache returns for sid
GetData(cache, sid) == UNION {g.tss : g \in {h \in cache.rows : h.sid = sid}}

\* MemCache::delete_series(sids, time_range): the rows of the series named
\* whose timestamp is in the range vanish from reads; their row groups stay
MemCacheDeleteSeries(cache, sids, time_range) ==
    [cache EXCEPT !.rows =
        {IF g.sid \in sids
         THEN [g EXCEPT !.tss = {ts \in @ : ts < time_range.min_ts \/ ts > time_range.max_ts}]
         ELSE g : g \in @}]

IsFull(cache) == Cardinality(cache.rows) >= cache.max_size

----------------------------------------------------------------------------
(* SuperVersion and TseriesFamily *)

SuperVersionNew(ts_family_id, cache_group, version, version_number) ==
    [ts_family_id |-> ts_family_id, caches |-> cache_group, version |-> version,
     version_number |-> version_number]

CacheGroup(mut_cache, immut_cache) == [mut_cache |-> mut_cache, immut_cache |-> immut_cache]

\* the SuperVersion TseriesFamily::new publishes
TseriesFamilyNewSuperVersion(tf_id, mm, version) ==
    SuperVersionNew(tf_id, CacheGroup(mm, <<>>), version, 0)

\* TseriesFamily::new with the cache behind handle mm and the Version
\* behind handle version; the SuperVersion it builds is object 1 of svs
TseriesFamilyNew(tf_id, mm, version, v) ==
    [tf_id |-> tf_id, seq_no |-> v.last_seq, mut_cache |-> mm, immut_cache |-> <<>>,
     super_version |-> 1, super_version_id |-> 0, version |-> version,
     immut_ts_min |-> v.max_level_ts, mut_ts_max |-> TimestampMIN]

\* the inner loop of get_version_edit over the files of the level lvl
RECURSIVE AddFilesOfLevel(_, _, _, _, _, _)
AddFilesOfLevel(heap, version_edit, lvl, k, last_seq, max_level_ts) ==
    IF k > Len(lvl.files) THEN version_edit
    ELSE LET meta == [CompactMetaFrom(heap[lvl.files[k]]) EXCEPT
                         !.tsf_id = lvl.tsf_id, !.high_seq = last_seq]
         IN AddFilesOfLevel(heap, VersionEditAddFile(version_edit, meta, max_level_ts),
                          lvl, k + 1, last_seq, max_level_ts)

RECURSIVE AddFilesOfLevels(_, _, _, _, _)
AddFilesOfLevels(heap, version_edit, version, i, last_seq) ==
    IF i > Len(version.levels_info) THEN version_edit
    ELSE AddFilesOfLevels(heap,
                   AddFilesOfLevel(heap, version_edit, version.levels_info[i], 1,
                                 last_seq, version.max_level_ts),
                   version, i + 1, last_seq)

\* get_version_edit as it would be if it passed over the delta level
GetVersionEditTsmOnly(t, version_heap, heap, last_seq, tsf_name) ==
    AddFilesOfLevels(heap, VersionEditNewAddVnode(t.tf_id, tsf_name),
              version_heap[t.version], 2, last_seq)

\* TseriesFamily::get_version_edit(&self, last_seq, tsf_name)
GetVersionEditOp(t, version_heap, heap, last_seq, tsf_name) ==
    AddFilesOfLevels(heap, VersionEditNewAddVnode(t.tf_id, tsf_name),
              version_heap[t.version], 1, last_seq)

\* new_super_version as it would be if it overwrote the published
\* SuperVersion object instead of publishing a new one
NewSuperVersionInPlace(t, sv_heap, version) ==
    LET id == t.super_version_id + 1
        sv == SuperVersionNew(t.tf_id, CacheGroup(t.mut_cache, t.immut_cache), version, id)
    IN [tsf |-> [t EXCEPT !.super_version_id = id],
        svs |-> [sv_heap EXCEPT ![t.super_version] = sv]]

\* new_super_version as it would be without the fetch_add
NewSuperVersionSameId(t, sv_heap, version) ==
    LET id == t.super_version_id
        sv == SuperVersionNew(t.tf_id, CacheGroup(t.mut_cache, t.immut_cache), version, id)
    IN [tsf |-> [t EXCEPT !.super_version = Len(sv_heap) + 1],
        svs |-> Append(sv_heap, sv)]

\* the vnode and the heap of SuperVersions after new_super_version(version)
NewSuperVersion(t, sv_heap, version) ==
    LET id == t.super_version_id + 1
        sv == SuperVersionNew(t.tf_id, CacheGroup(t.mut_cache, t.immut_cache), version, id)
    IN [tsf |-> [t EXCEPT !.super_version_id = id, !.super_version = Len(sv_heap) + 1],
        svs |-> Append(sv_heap, sv)]

\* switch_memcache(cache): the SuperVersion is built before mut_cache is set
SwitchMemcacheOp(t, sv_heap, cache) ==
    LET t1 == [t EXCEPT !.immut_cache = Append(@, t.mut_cache)]
        r == NewSuperVersion(t1, sv_heap, t1.version)
    IN [tsf |-> [r.tsf EXCEPT !.mut_cache = cache], svs |-> r.svs]

\* new_version as it would be if seq_no never went down
NewVersionGreaterSeq(t, sv_heap, version, v) ==
    LET r == NewSuperVersion(t, sv_heap, version)
    IN [tsf |-> [r.tsf EXCEPT !.seq_no = Max(@, v.last_seq), !.version = version],
        svs |-> r.svs]

\* new_version(new_version): version is the handle Arc::new gives it
NewVersionOp(t, sv_heap, version, v) ==
    LET r == NewSuperVersion(t, sv_heap, version)
    IN [tsf |-> [r.tsf EXCEPT !.seq_no = v.last_seq, !.version = version], svs |-> r.svs]

\* switch_to_immutable as it would be if it put the mutable cache at the
\* front of the immutable list
SwitchToImmutableFront(t, sv_heap, cache_heap) ==
    LET cache_heap2 == Append(cache_heap, MemCacheNew(t.tf_id, MaxBufferSize, t.seq_no))
        t1 == [t EXCEPT !.immut_cache = <<t.mut_cache>> \o @,
                        !.mut_cache = Len(cache_heap2)]
        r == NewSuperVersion(t1, sv_heap, t1.version)
    IN [tsf |-> r.tsf, svs |-> r.svs, caches |-> cache_heap2]

\* switch_to_immutable: the fresh MemCache is appended to the heap of caches
SwitchToImmutableOp(t, sv_heap, cache_heap) ==
    LET cache_heap2 == Append(cache_heap, MemCacheNew(t.tf_id, MaxBufferSize, t.seq_no))
        t1 == [t EXCEPT !.immut_cache = Append(@, t.mut_cache),
                        !.mut_cache = Len(cache_heap2)]
        r == NewSuperVersion(t1, sv_heap, t1.version)
    IN [tsf |-> r.tsf, svs |-> r.svs, caches |-> cache_heap2]

\* flush_req as it would be if it did not skip the caches already flushing
FlushReqReselect(t, sv_heap, cache_heap, force) ==
    LET len == Len(t.immut_cache)
        imut == SelectSeq(t.immut_cache, LAMBDA mem : ~cache_heap[mem].flushed)
        t1 == [t EXCEPT !.immut_cache = imut]
        r == IF len # Len(imut) THEN NewSuperVersion(t1, sv_heap, t1.version)
             ELSE [tsf |-> t1, svs |-> sv_heap]
        t2 == [r.tsf EXCEPT !.immut_ts_min = t.mut_ts_max]
        req_mems == imut
    IN IF ~force /\ Len(req_mems) < MaxImmutableNumber
       THEN [tsf |-> t2, svs |-> r.svs, caches |-> cache_heap, req |-> None]
       ELSE [tsf |-> t2, svs |-> r.svs,
             caches |-> [c \in DOMAIN cache_heap |->
                            IF \E i \in 1..Len(req_mems) : req_mems[i] = c
                            THEN [cache_heap[c] EXCEPT !.flushing = TRUE]
                            ELSE cache_heap[c]],
             req |-> Some([mems |-> [i \in 1..Len(req_mems) |-> <<t.tf_id, req_mems[i]>>]])]

\* flush_req as it would be if its sweep removed the caches that are
\* flushing, whether flushed or not
FlushReqSweepFlushing(t, sv_heap, cache_heap, force) ==
    LET len == Len(t.immut_cache)
        imut == SelectSeq(t.immut_cache, LAMBDA mem : ~cache_heap[mem].flushing)
        t1 == [t EXCEPT !.immut_cache = imut]
        r == IF len # Len(imut) THEN NewSuperVersion(t1, sv_heap, t1.version)
             ELSE [tsf |-> t1, svs |-> sv_heap]
        t2 == [r.tsf EXCEPT !.immut_ts_min = t.mut_ts_max]
        req_mems == SelectSeq(imut, LAMBDA mem : ~cache_heap[mem].flushing)
    IN IF ~force /\ Len(req_mems) < MaxImmutableNumber
       THEN [tsf |-> t2, svs |-> r.svs, caches |-> cache_heap, req |-> None]
       ELSE [tsf |-> t2, svs |-> r.svs,
             caches |-> [c \in DOMAIN cache_heap |->
                            IF \E i \in 1..Len(req_mems) : req_mems[i] = c
                            THEN [cache_heap[c] EXCEPT !.flushing = TRUE]
                            ELSE cache_heap[c]],
             req |-> Some([mems |-> [i \in 1..Len(req_mems) |-> <<t.tf_id, req_mems[i]>>]])]

\* flush_req as it would be with <= in place of < in the threshold test
FlushReqOffByOne(t, sv_heap, cache_heap, force) ==
    LET len == Len(t.immut_cache)
        imut == SelectSeq(t.immut_cache, LAMBDA mem : ~cache_heap[mem].flushed)
        t1 == [t EXCEPT !.immut_cache = imut]
        r == IF len # Len(imut) THEN NewSuperVersion(t1, sv_heap, t1.version)
             ELSE [tsf |-> t1, svs |-> sv_heap]
        t2 == [r.tsf EXCEPT !.immut_ts_min = t.mut_ts_max]
        req_mems == SelectSeq(imut, LAMBDA mem : ~cache_heap[mem].flushing)
    IN IF ~force /\ Len(req_mems) <= MaxImmutableNumber
       THEN [tsf |-> t2, svs |-> r.svs, caches |-> cache_heap, req |-> None]
       ELSE [tsf |-> t2, svs |-> r.svs,
             caches |-> [c \in DOMAIN cache_heap |->
                            IF \E i \in 1..Len(req_mems) : req_mems[i] = c
                            THEN [cache_heap[c] EXCEPT !.flushing = TRUE]
                            ELSE cache_heap[c]],
             req |-> Some([mems |-> [i \in 1..Len(req_mems) |-> <<t.tf_id, req_mems[i]>>]])]

\* flush_req as it would be if force were not looked at
FlushReqIgnoreForce(t, sv_heap, cache_heap, force) ==
    LET len == Len(t.immut_cache)
        imut == SelectSeq(t.immut_cache, LAMBDA mem : ~cache_heap[mem].flushed)
        t1 == [t EXCEPT !.immut_cache = imut]
        r == IF len # Len(imut) THEN NewSuperVersion(t1, sv_heap, t1.version)
             ELSE [tsf |-> t1, svs |-> sv_heap]
        t2 == [r.tsf EXCEPT !.immut_ts_min = t.mut_ts_max]
        req_mems == SelectSeq(imut, LAMBDA mem : ~cache_heap[mem].flushing)
    IN IF Len(req_mems) < MaxImmutableNumber
       THEN [tsf |-> t2, svs |-> r.svs, caches |-> cache_heap, req |-> None]
       ELSE [tsf |-> t2, svs |-> r.svs,
             caches |-> [c \in DOMAIN cache_heap |->
                            IF \E i \in 1..Len(req_mems) : req_mems[i] = c
                            THEN [cache_heap[c] EXCEPT !.flushing = TRUE]
                            ELSE cache_heap[c]],
             req |-> Some([mems |-> [i \in 1..Len(req_mems) |-> <<t.tf_id, req_mems[i]>>]])]

\* flush_req as it would be without its sweep of the flushed caches
FlushReqNoSweep(t, sv_heap, cache_heap, force) ==
    LET t2 == [t EXCEPT !.immut_ts_min = t.mut_ts_max]
        req_mems == SelectSeq(t.immut_cache, LAMBDA mem : ~cache_heap[mem].flushing)
    IN IF ~force /\ Len(req_mems) < MaxImmutableNumber
       THEN [tsf |-> t2, svs |-> sv_heap, caches |-> cache_heap, req |-> None]
       ELSE [tsf |-> t2, svs |-> sv_heap,
             caches |-> [c \in DOMAIN cache_heap |->
                            IF \E i \in 1..Len(req_mems) : req_mems[i] = c
                            THEN [cache_heap[c] EXCEPT !.flushing = TRUE]
                            ELSE cache_heap[c]],
             req |-> Some([mems |-> [i \in 1..Len(req_mems) |-> <<t.tf_id, req_mems[i]>>]])]

\* flush_req as it would be if it did not publish a SuperVersion after its
\* sweep
FlushReqSweepSilent(t, sv_heap, cache_heap, force) ==
    LET imut == SelectSeq(t.immut_cache, LAMBDA mem : ~cache_heap[mem].flushed)
        t2 == [t EXCEPT !.immut_cache = imut, !.immut_ts_min = t.mut_ts_max]
        req_mems == SelectSeq(imut, LAMBDA mem : ~cache_heap[mem].flushing)
    IN IF ~force /\ Len(req_mems) < MaxImmutableNumber
       THEN [tsf |-> t2, svs |-> sv_heap, caches |-> cache_heap, req |-> None]
       ELSE [tsf |-> t2, svs |-> sv_heap,
             caches |-> [c \in DOMAIN cache_heap |->
                            IF \E i \in 1..Len(req_mems) : req_mems[i] = c
                            THEN [cache_heap[c] EXCEPT !.flushing = TRUE]
                            ELSE cache_heap[c]],
             req |-> Some([mems |-> [i \in 1..Len(req_mems) |-> <<t.tf_id, req_mems[i]>>]])]

\* flush_req(force): req is None or Some(the mems of the FlushReq)
FlushReqOp(t, sv_heap, cache_heap, force) ==
    LET len == Len(t.immut_cache)
        imut == SelectSeq(t.immut_cache, LAMBDA mem : ~cache_heap[mem].flushed)
        t1 == [t EXCEPT !.immut_cache = imut]
        r == IF len # Len(imut) THEN NewSuperVersion(t1, sv_heap, t1.version)
             ELSE [tsf |-> t1, svs |-> sv_heap]
        t2 == [r.tsf EXCEPT !.immut_ts_min = t.mut_ts_max]
        req_mems == SelectSeq(imut, LAMBDA mem : ~cache_heap[mem].flushing)
    IN IF ~force /\ Len(req_mems) < MaxImmutableNumber
       THEN [tsf |-> t2, svs |-> r.svs, caches |-> cache_heap, req |-> None]
       ELSE [tsf |-> t2, svs |-> r.svs,
             caches |-> [c \in DOMAIN cache_heap |->
                            IF \E i \in 1..Len(req_mems) : req_mems[i] = c
                            THEN [cache_heap[c] EXCEPT !.flushing = TRUE]
                            ELSE cache_heap[c]],
             req |-> Some([mems |-> [i \in 1..Len(req_mems) |-> <<t.tf_id, req_mems[i]>>]])]

\* wrap_flush_req(force): the request, if any, is sent on the flush channel
WrapFlushReqOp(t, sv_heap, cache_heap, ch, force) ==
    LET r == FlushReqOp(t, sv_heap, cache_heap, force)
    IN [tsf |-> r.tsf, svs |-> r.svs, caches |-> r.caches,
        chan |-> IF r.req = None THEN ch ELSE Append(ch, r.req[1])]

\* check_to_flush as it would be with > in place of >= in its test of the
\* number of immutable caches
CheckToFlushAbove(t, sv_heap, cache_heap, ch) ==
    IF IsFull(cache_heap[sv_heap[t.super_version].caches.mut_cache])
    THEN LET s == SwitchToImmutableOp(t, sv_heap, cache_heap)
         IN IF Len(s.tsf.immut_cache) > MaxImmutableNumber
            THEN WrapFlushReqOp(s.tsf, s.svs, s.caches, ch, FALSE)
            ELSE [tsf |-> s.tsf, svs |-> s.svs, caches |-> s.caches, chan |-> ch]
    ELSE [tsf |-> t, svs |-> sv_heap, caches |-> cache_heap, chan |-> ch]

\* check_to_flush as it would be if it also asked for a flush when the
\* mutable cache is not full
CheckToFlushAnyway(t, sv_heap, cache_heap, ch) ==
    IF IsFull(cache_heap[sv_heap[t.super_version].caches.mut_cache])
    THEN LET s == SwitchToImmutableOp(t, sv_heap, cache_heap)
         IN IF Len(s.tsf.immut_cache) >= MaxImmutableNumber
            THEN WrapFlushReqOp(s.tsf, s.svs, s.caches, ch, FALSE)
            ELSE [tsf |-> s.tsf, svs |-> s.svs, caches |-> s.caches, chan |-> ch]
    ELSE IF Len(t.immut_cache) >= MaxImmutableNumber
         THEN WrapFlushReqOp(t, sv_heap, cache_heap, ch, FALSE)
         ELSE [tsf |-> t, svs |-> sv_heap, caches |-> cache_heap, chan |-> ch]

\* check_to_flush
CheckToFlushOp(t, sv_heap, cache_heap, ch) ==
    IF IsFull(cache_heap[sv_heap[t.super_version].caches.mut_cache])
    THEN LET s == SwitchToImmutableOp(t, sv_heap, cache_heap)
         IN IF Len(s.tsf.immut_cache) >= MaxImmutableNumber
            THEN WrapFlushReqOp(s.tsf, s.svs, s.caches, ch, FALSE)
            ELSE [tsf |-> s.tsf, svs |-> s.svs, caches |-> s.caches, chan |-> ch]
    ELSE [tsf |-> t, svs |-> sv_heap, caches |-> cache_heap, chan |-> ch]

\* delete_series as it would be if it forwarded to the mutable cache only
DeleteSeriesMutOnly(t, cache_heap, sids, time_range) ==
    [c \in DOMAIN cache_heap |->
        IF c = t.mut_cache
        THEN MemCacheDeleteSeries(cache_heap[c], sids, time_range)
        ELSE cache_heap[c]]

\* delete_series(sids, time_range): forwarded to the vnode's mutable cache
\* and to every cache of its immutable list
DeleteSeriesOp(t, cache_heap, sids, time_range) ==
    [c \in DOMAIN cache_heap |->
        IF c = t.mut_cache \/ \E i \in DOMAIN t.immut_cache : t.immut_cache[i] = c
        THEN MemCacheDeleteSeries(cache_heap[c], sids, time_range)
        ELSE cache_heap[c]]

\* put_points as it would be if it wrote to the vnode's own mut_cache field
PutPointsToVnodeCache(t, sv_heap, cache_heap, seq, points) ==
    [cache_heap EXCEPT ![t.mut_cache] = WriteGroups(@, seq, points)]

\* put_points(seq, points): every group goes to the mutable cache of the
\* published SuperVersion
PutPointsOp(t, sv_heap, cache_heap, seq, points) ==
    LET mem == sv_heap[t.super_version].caches.mut_cache
    IN [cache_heap EXCEPT ![mem] = WriteGroups(@, seq, points)]

----------------------------------------------------------------------------
(* Inputs *)

\* the points of one put_points call: its row groups, each with its series
\* id and the timestamps of its rows
PointSets == {{[sid |-> 0, tss |-> {100, 300}], [sid |-> 1, tss |-> {100}]}}

\* the series and the time ranges of the delete_series calls
DeleteSids == {{0}, {0, 1}}
DeleteRanges == {TimeRangeNew(0, 200), TimeRangeNew(250, 400)}

FileIds == 1..MaxFileId

\* the CompactMeta of file file_id written to level: its time range and
\* size vary with both
Meta(file_id, level) ==
    CompactMetaNew(file_id, level, 10 * file_id, 10 * file_id + 5 + level, file_id)

\* levels named by the edits drawn as inputs: the delta level, a tsm level
\* and, for the add_files entry of one file, a LevelId that is no index of
\* levels_info
DelLevels == {0, 1}
AddLevels == DelLevels \cup {NumLevels}

Entries ==
    {[add |-> <<Meta(i, l)>>, del |-> <<>>] :
        <<i, l>> \in {p \in FileIds \X AddLevels : p[2] \in DelLevels \/ p[1] = 1}}
    \cup {[add |-> <<>>, del |-> <<DelFileNew(l, i)>>] : i \in FileIds, l \in DelLevels}

\* the batch made of the entries es, where cut[i] tells that entry i starts
\* a new VersionEdit
RECURSIVE GroupEntries(_, _, _, _)
GroupEntries(es, cut, i, acc) ==
    IF i > Len(es) THEN acc
    ELSE IF acc = <<>> \/ cut[i]
         THEN GroupEntries(es, cut, i + 1,
                           Append(acc, VersionEditNew(es[i].add, es[i].del)))
         ELSE GroupEntries(es, cut, i + 1,
                           [acc EXCEPT ![Len(acc)] =
                               VersionEditNew(@.add_files \o es[i].add,
                                              @.del_files \o es[i].del)])

\* the entries of a batch are one VersionEdit, or a VersionEdit each
Batches ==
    UNION {{GroupEntries(es, [i \in 1..k |-> b], 1, <<>>) : es \in [1..k -> Entries],
                                                            b \in BOOLEAN} : k \in 0..MaxEntries}

\* last_seq of a call: None, or Some of the greatest sequence number
LastSeqs == {None, Some(MaxSeq)}

\* the files a recovered vnode starts with
InitMetaLists ==
    {<<>>, <<Meta(1, 1)>>, <<Meta(2, 1), Meta(1, 1)>>, <<Meta(1, 0), Meta(2, 1)>>}

\* the first ColumnFileId the allocator hands out after recovery: the one
\* after the greatest id in use
FirstFileId == MaxFileId + 1

\* a flush adds one new file to level 1
FlushEdits(id) == {<<VersionEditNew(<<Meta(id, 1)>>, <<>>)>>}

\* a compaction deletes one file of the Version and adds a new one to the
\* next level
CompactEdits(heap, v, id) ==
    {<<VersionEditNew(<<Meta(id, v.levels_info[i].level + 1)>>,
                      <<DelFileNew(v.levels_info[i].level,
                                   heap[v.levels_info[i].files[j]].file_id)>>)>> :
        <<i, j>> \in {p \in (1..(NumLevels - 1)) \X (1..Len(heap)) :
                        p[2] <= Len(v.levels_info[p[1]].files)}}

----------------------------------------------------------------------------
(* VersionSet: the registry of databases and their vnodes *)

\* Result<T>
Ok(x) == [ok |-> TRUE, val |-> x]
Err == [ok |-> FALSE]

Tenants == {"cnosdb"}
Databases == {"a", "b"}

\* make_owner(tenant, database): the owner names both
MakeOwner(tenant, database) == [tenant |-> tenant, database |-> database]

Owners == {MakeOwner(tenant, database) : tenant \in Tenants, database \in Databases}

\* DatabaseSchema::new(tenant, database): the default schema
DatabaseSchemaNew(tenant, database) ==
    [tenant |-> tenant, database |-> database, config |-> "default"]

\* a schema the meta service holds for the database
StoredSchema(tenant, database) ==
    [tenant |-> tenant, database |-> database, config |-> "stored"]

\* Database::new(schema, ..): no vnode yet
DatabaseNew(schema) == [schema |-> schema, ts_families |-> [id \in {} |-> 0]]

\* a vnode of a Database: the TseriesFamily that TseriesFamily::new builds
\* from the Version, with the objects it refers to
TsFamilyOf(tf_id, v) ==
    [tsf |-> TseriesFamilyNew(tf_id, 1, 1, v),
     svs |-> <<TseriesFamilyNewSuperVersion(tf_id, 1, 1)>>,
     versions |-> <<v>>,
     caches |-> <<MemCacheNew(tf_id, MaxBufferSize, v.last_seq)>>]

\* Database::open_tsfamily(ver, ..): the vnode is built and inserted under
\* ver.tf_id()
OpenTsfamily(db, v) ==
    [db EXCEPT !.ts_families =
        [id \in DOMAIN @ \cup {v.ts_family_id} |->
            IF id = v.ts_family_id THEN TsFamilyOf(id, v) ELSE @[id]]]

\* VersionSet::empty
VersionSetEmpty == [dbs |-> [owner \in {} |-> 0]]

\* the loop of VersionSet::new over the entries ids of ver_set, dbs being
\* the map built so far. The Version of an entry is ver_set[id].version and
\* its database() is ver_set[id].database. The ? on get_db_schema returns
\* the error to the caller of new.
RECURSIVE VersionSetNewLoop(_, _, _, _)
VersionSetNewLoop(meta, ver_set, ids, dbs) ==
    IF ids = {} THEN Ok([dbs |-> dbs])
    ELSE LET id == CHOOSE i \in ids : \A j \in ids : i <= j
             ver == ver_set[id]
             owner == ver.database
             client == meta.tenant_meta[owner.tenant]
             looked == IF client = None THEN Ok(None)
                       ELSE client[1].get_db_schema[owner.database]
         IN IF ~looked.ok THEN Err
            ELSE LET schema == IF looked.val = None
                               THEN DatabaseSchemaNew(owner.tenant, owner.database)
                               ELSE looked.val[1]
                     dbs1 == [o \in DOMAIN dbs \cup {owner} |->
                                IF o \in DOMAIN dbs THEN dbs[o] ELSE DatabaseNew(schema)]
                     dbs2 == [dbs1 EXCEPT ![owner] = OpenTsfamily(@, ver.version)]
                 IN VersionSetNewLoop(meta, ver_set, ids \ {id}, dbs2)

\* VersionSet::new(meta, opt, ver_set, flush_task_sender)
VersionSetNew(meta, ver_set) ==
    VersionSetNewLoop(meta, ver_set, DOMAIN ver_set, VersionSetEmpty.dbs)

\* create_db(schema, meta)
CreateDbOp(self, schema) ==
    LET owner == MakeOwner(schema.tenant, schema.database)
    IN [self EXCEPT !.dbs = [o \in DOMAIN @ \cup {owner} |->
                                IF o \in DOMAIN @ THEN @[o] ELSE DatabaseNew(schema)]]

\* delete_db(tenant, database)
DeleteDbOp(self, tenant, database) ==
    LET owner == MakeOwner(tenant, database)
    IN [self EXCEPT !.dbs = [o \in DOMAIN @ \ {owner} |-> @[o]]]

\* get_tsfamily_by_tf_id(tf_id): the vnode of the first database that has
\* one under tf_id
GetTsfamilyByTfId(self, tf_id) ==
    LET holders == {o \in DOMAIN self.dbs : tf_id \in DOMAIN self.dbs[o].ts_families}
    IN IF holders = {} THEN None
       ELSE Some(self.dbs[CHOOSE o \in holders : TRUE].ts_families[tf_id])

\* TseriesFamily::new_version on the vnode id of database owner, given a
\* Version that differs from the vnode's current one in last_seq
TsFamilyNewVersion(self, owner, id, last_seq) ==
    LET e == self.dbs[owner].ts_families[id]
        cur == e.versions[e.tsf.version]
        v == VersionNew(id, last_seq, cur.levels_info, cur.max_level_ts)
        versions2 == Append(e.versions, v)
        r == NewVersionOp(e.tsf, e.svs, Len(versions2), v)
    IN [self EXCEPT !.dbs[owner].ts_families[id] =
            [tsf |-> r.tsf,
             svs |-> [h \in DOMAIN r.svs |->
                        IF h = r.tsf.super_version THEN r.svs[h] ELSE [dropped |-> TRUE]],
             versions |-> [h \in DOMAIN versions2 |->
                             IF h = r.tsf.version THEN versions2[h] ELSE [dropped |-> TRUE]],
             caches |-> e.caches]]

\* the (database, vnode id) pairs the loops of get_global_sequence_context
\* visit
TsFamilies(self) ==
    UNION {{<<o, id>> : id \in DOMAIN self.dbs[o].ts_families} : o \in DOMAIN self.dbs}

SeqNoOf(self, p) == self.dbs[p[1]].ts_families[p[2]].tsf.seq_no

\* min_seq after the vnodes todo have been visited: min_seq.min(tsf.seq_no())
\* for each
RECURSIVE MinSeqLoop(_, _, _)
MinSeqLoop(self, todo, min_seq) ==
    IF todo = {} THEN min_seq
    ELSE LET p == CHOOSE q \in todo : TRUE
         IN MinSeqLoop(self, todo \ {p}, Min(min_seq, SeqNoOf(self, p)))

\* the loop as it would be with max in place of min
RECURSIVE MaxSeqLoop(_, _, _)
MaxSeqLoop(self, todo, min_seq) ==
    IF todo = {} THEN min_seq
    ELSE LET p == CHOOSE q \in todo : TRUE
         IN MaxSeqLoop(self, todo \ {p}, Max(min_seq, SeqNoOf(self, p)))

TsfSeqMap(self) ==
    [id \in {p[2] : p \in TsFamilies(self)} |->
        SeqNoOf(self, CHOOSE p \in TsFamilies(self) : p[2] = id)]

\* get_global_sequence_context as it would be with max in place of min
GetGlobalSequenceContextMax(self) ==
    [min_seq |-> MaxSeqLoop(self, TsFamilies(self), 0), tsf_seq_map |-> TsfSeqMap(self)]

\* get_global_sequence_context: min_seq starts at 0_u64
GetGlobalSequenceContext(self) ==
    [min_seq |-> MinSeqLoop(self, TsFamilies(self), 0), tsf_seq_map |-> TsfSeqMap(self)]

----------------------------------------------------------------------------
(* Tombstone files of the ColumnFiles *)

\* no tombstone written, no add_tombstone call under way: one tombstone file
\* per ColumnFile of heap, one slot per caller
TombstonesInit(heap) ==
    [disk |-> [h \in DOMAIN heap |-> {}],
     calls |-> [p \in 1..MaxCallers |-> [pc |-> "idle"]]]

----------------------------------------------------------------------------
(* Reference counting: an object no handle refers to any more is dropped   *)

Dropped == [dropped |-> TRUE]

World ==
    [files |-> files, versions |-> versions, caches |-> caches, svs |-> svs,
     tsf |-> tsf, chan |-> chan, pending |-> pending, reader |-> reader,
     again |-> again, stepwise |-> stepwise, compact_req |-> compact_req]

SeqRange(q) == {q[i] : i \in DOMAIN q}

VersionFiles(v) == UNION {SeqRange(v.levels_info[i].files) : i \in DOMAIN v.levels_info}

LiveSvs(w) ==
    {w.tsf.super_version} \cup (IF w.reader = None THEN {} ELSE {w.reader[1].sv})

LiveVersions(w) ==
    {w.tsf.version} \cup {w.svs[s].version : s \in LiveSvs(w)}
    \cup (IF w.compact_req = None THEN {} ELSE {w.compact_req[1].version})

LiveFiles(w) ==
    UNION ({VersionFiles(w.versions[v]) : v \in LiveVersions(w)}
           \cup {VersionFiles(o[1].version) : o \in {w.pending, w.again, w.stepwise} \ {None}}
           \cup (IF w.compact_req = None THEN {} ELSE {SeqRange(w.compact_req[1].files)}))

LiveCaches(w) ==
    {w.tsf.mut_cache} \cup SeqRange(w.tsf.immut_cache)
    \cup UNION {{w.svs[s].caches.mut_cache} \cup SeqRange(w.svs[s].caches.immut_cache) :
                  s \in LiveSvs(w)}
    \cup UNION {{w.chan[i].mems[j][2] : j \in DOMAIN w.chan[i].mems} : i \in DOMAIN w.chan}

Sweep(heap, live) == [h \in DOMAIN heap |-> IF h \in live THEN heap[h] ELSE Dropped]

\* the remove_file calls made so far, after the ColumnFiles that nothing in
\* w refers to any more have been dropped
Unlink(w, calls) ==
    LET live == LiveFiles(w)
    IN [h \in DOMAIN w.files |->
          (IF h \in DOMAIN calls THEN calls[h] ELSE 0)
          + (IF w.files[h] # Dropped /\ h \notin live
             THEN DropColumnFile(w.files[h]) ELSE 0)]

\* the state an operation leaves: w with the objects nothing refers to dropped
Commit(w) ==
    /\ files' = Sweep(w.files, LiveFiles(w))
    /\ versions' = Sweep(w.versions, LiveVersions(w))
    /\ caches' = Sweep(w.caches, LiveCaches(w))
    /\ svs' = Sweep(w.svs, LiveSvs(w))
    /\ tsf' = w.tsf
    /\ chan' = w.chan
    /\ pending' = w.pending
    /\ reader' = w.reader
    /\ again' = w.again
    /\ stepwise' = w.stepwise
    /\ compact_req' = w.compact_req
    /\ unlinked' = Unlink(w, unlinked)
    /\ UNCHANGED <<vs_in, vs, tomb, probe, meta_client>>

----------------------------------------------------------------------------
(* The RemoteMetaClient: the tenant metadata it caches under its RwLock    *)

\* TenantMetaData as far as the client reads it: its version and the
\* databases it describes
TenantMetaData(version, dbs) == [version |-> version, dbs |-> dbs]

\* TenantMetaData::new()
TenantMetaDataNew == TenantMetaData(0, {})

\* data.merge_into(&update): what update describes is added to data
MergeInto(data, update) == [data EXCEPT !.dbs = @ \cup update.dbs]

\* data.delete_from(&delete): what delete describes is taken out of data
DeleteFrom(data, delete) == [data EXCEPT !.dbs = @ \ delete.dbs]

\* the body of watch_data's loop for Ok(delta), done under data.write(),
\* as it would be if the incremental delta were applied whatever its range
WatchDataApplyAnyRange(data, delta) ==
    IF delta.full_load
    THEN IF delta.update.version > data.version THEN delta.update ELSE data
    ELSE [DeleteFrom(MergeInto(data, delta.update), delta.delete)
             EXCEPT !.version = delta.ver_range[2]]

\* the body of watch_data's loop for Ok(delta), done under data.write()
WatchDataApply(data, delta) ==
    IF delta.full_load
    THEN IF delta.update.version > data.version THEN delta.update ELSE data
    ELSE IF data.version >= delta.ver_range[1] /\ data.version < delta.ver_range[2]
         THEN [DeleteFrom(MergeInto(data, delta.update), delta.delete)
                  EXCEPT !.version = delta.ver_range[2]]
         ELSE data

\* sync_all_tenant_metadata once client.read has returned rsp: an Err and a
\* negative status code return before the lock is taken
SyncAllTenantMetadataOp(data, rsp) ==
    IF ~rsp.ok THEN data
    ELSE IF rsp.val.status < 0 THEN data
    ELSE IF rsp.val.data.version > data.version THEN rsp.val.data ELSE data

\* create_db once client.write has returned rsp
RemoteCreateDbOp(data, rsp) ==
    IF ~rsp.ok THEN data
    ELSE IF rsp.val.data.version > data.version THEN rsp.val.data ELSE data

\* create_table once client.write has returned rsp
RemoteCreateTableOp(data, rsp) ==
    IF ~rsp.ok THEN data
    ELSE IF rsp.val.data.version > data.version THEN rsp.val.data ELSE data

\* update_table once client.write has returned rsp
RemoteUpdateTableOp(data, rsp) ==
    IF ~rsp.ok THEN data
    ELSE IF rsp.val.data.version > data.version THEN rsp.val.data ELSE data

\* create_bucket once client.write has returned rsp: the status code is
\* looked at only after the cache has taken the response
RemoteCreateBucketOp(data, rsp) ==
    IF ~rsp.ok THEN data
    ELSE IF rsp.val.data.version > data.version THEN rsp.val.data ELSE data

\* the RemoteMetaClient as Self { .. } builds it in new, before the first
\* sync and before the watch_data thread is spawned; cmd3 is cmd.3 of
\* watch_data
RemoteMetaClientSelf ==
    [data |-> TenantMetaDataNew, pc |-> "new", cmd3 |-> 0, writes |-> {}]

----------------------------------------------------------------------------
(* The vnode *)

InitWith(metas) ==
    LET r == WithCompactMetas(<<>>, InitLevels(TfId), metas)
        v == VersionNew(TfId, 0, r.levels, MaxLevelsTs(r.heap, r.levels, TimestampMIN))
    IN /\ files = r.heap
       /\ versions = <<v>>
       /\ caches = <<MemCacheNew(TfId, MaxBufferSize, 0)>>
       /\ svs = <<TseriesFamilyNewSuperVersion(TfId, 1, 1)>>
       /\ tsf = TseriesFamilyNew(TfId, 1, 1, v)
       /\ chan = <<>>
       /\ pending = None
       /\ reader = None
       /\ next_seq = 1
       /\ next_file_id = FirstFileId
       /\ again = None
       /\ stepwise = None
       /\ tomb = TombstonesInit(r.heap)
       /\ compact_req = None
       /\ unlinked = [h \in DOMAIN r.heap |-> 0]

Init ==
    /\ InitWith(<<Meta(1, 0), Meta(2, 1)>>)
    /\ vs_in = None
    /\ vs = Ok(VersionSetEmpty)
    /\ probe = None
    /\ meta_client = RemoteMetaClientSelf

PutPoints ==
    /\ next_seq <= MaxSeq
    /\ \E points \in PointSets :
          Commit([World EXCEPT
                    !.caches = PutPointsOp(tsf, svs, caches, next_seq, points)])
    /\ next_seq' = next_seq + 1
    /\ UNCHANGED next_file_id

CheckToFlush ==
    /\ Len(caches) < MaxCaches
    /\ Len(chan) < MaxQueue
    /\ LET r == CheckToFlushOp(tsf, svs, caches, chan)
       IN Commit([World EXCEPT !.tsf = r.tsf, !.svs = r.svs, !.caches = r.caches,
                               !.chan = r.chan])
    /\ UNCHANGED <<next_seq, next_file_id>>

SwitchToImmutable ==
    /\ Len(caches) < MaxCaches
    /\ LET r == SwitchToImmutableOp(tsf, svs, caches)
       IN Commit([World EXCEPT !.tsf = r.tsf, !.svs = r.svs, !.caches = r.caches])
    /\ UNCHANGED <<next_seq, next_file_id>>

\* switch_memcache with a cache the caller has just created
SwitchMemcache ==
    /\ Len(caches) < MaxCaches
    /\ LET cache_heap == Append(caches, MemCacheNew(tsf.tf_id, MaxBufferSize, tsf.seq_no))
           r == SwitchMemcacheOp(tsf, svs, Len(cache_heap))
       IN Commit([World EXCEPT !.tsf = r.tsf, !.svs = r.svs, !.caches = cache_heap])
    /\ UNCHANGED <<next_seq, next_file_id>>

WrapFlushReq ==
    /\ Len(chan) < MaxQueue
    /\ \E force \in BOOLEAN :
          LET r == WrapFlushReqOp(tsf, svs, caches, chan, force)
          IN Commit([World EXCEPT !.tsf = r.tsf, !.svs = r.svs, !.caches = r.caches,
                                  !.chan = r.chan])
    /\ UNCHANGED <<next_seq, next_file_id>>

\* the flush worker takes a FlushReq and marks each of its caches flushed
FlushWorker ==
    /\ chan # <<>>
    /\ LET req == Head(chan)
       IN Commit([World EXCEPT
                    !.caches = [c \in DOMAIN caches |->
                                   IF \E i \in 1..Len(req.mems) : req.mems[i][2] = c
                                   THEN [caches[c] EXCEPT !.flushed = TRUE]
                                   ELSE caches[c]],
                    !.chan = Tail(chan)])
    /\ UNCHANGED <<next_seq, next_file_id>>

\* the flush worker takes a FlushReq and fails: the caches of the request
\* stay flushing and are not marked flushed
FlushWorkerFail ==
    /\ chan # <<>>
    /\ Commit([World EXCEPT !.chan = Tail(chan)])
    /\ UNCHANGED <<next_seq, next_file_id>>

\* the state after the caller has built a Version from the vnode's current
\* one: ts_family.version().copy_apply_version_edits(version_edits, last_seq)
ApplyEdits(version_edits, last_seq) ==
    LET r == CopyApplyVersionEdits(files, versions[tsf.version], version_edits, last_seq)
    IN [World EXCEPT
          !.files = r.heap,
          !.pending = Some([src |-> tsf.version, edits |-> version_edits,
                            last_seq |-> last_seq, version |-> r.version])]

\* a flush or a compaction of the vnode builds the next Version; last_seq
\* is the sequence number of the last write
ApplyVnodeEdits ==
    /\ pending = None
    /\ next_file_id - FirstFileId < MaxApplies
    /\ \E version_edits \in FlushEdits(next_file_id)
                            \cup CompactEdits(files, versions[tsf.version], next_file_id) :
          Commit(ApplyEdits(version_edits, Some(next_seq - 1)))
    /\ next_file_id' = next_file_id + 1
    /\ UNCHANGED next_seq

\* the state after ts_family.new_version(new_version) with the Version
\* built last in state w
InstallOp(w) ==
    LET v == w.pending[1].version
        r == NewVersionOp(w.tsf, w.svs, Len(w.versions) + 1, v)
    IN [w EXCEPT !.versions = Append(w.versions, v), !.tsf = r.tsf, !.svs = r.svs,
                 !.pending = None]

NewVersion ==
    /\ pending # None
    /\ Commit(InstallOp(World))
    /\ UNCHANGED <<next_seq, next_file_id>>

\* the edit of a flush is applied and the Version installed in one critical
\* section of the vnode (as update_ts_family_version does)
FlushInstall ==
    /\ pending = None
    /\ next_file_id - FirstFileId < MaxApplies
    /\ \E version_edits \in FlushEdits(next_file_id) :
          Commit(InstallOp(ApplyEdits(version_edits, Some(next_seq - 1))))
    /\ next_file_id' = next_file_id + 1
    /\ UNCHANGED next_seq

\* the Version built last is dropped without being installed
DiscardEdits ==
    /\ pending # None
    /\ Commit([World EXCEPT !.pending = None])
    /\ UNCHANGED <<next_seq, next_file_id>>

\* the files read_column_file visits in each level of Version v, for a
\* scan of time_range
ScanVersion(heap, v, time_range) ==
    [i \in 1..NumLevels |-> ReadColumnFile(heap, v.levels_info[i], time_range)]

\* the rows of the caches of SuperVersion sv: of its mutable cache and of
\* its immutable caches
CacheRows(cache_heap, sv) ==
    [mut |-> cache_heap[sv.caches.mut_cache].rows,
     immut |-> [i \in 1..Len(sv.caches.immut_cache) |->
                   cache_heap[sv.caches.immut_cache[i]].rows]]

\* a reader calls super_version() and keeps the handle; seq records the
\* sequence number the next write will carry, so that the writes made after
\* the acquisition can be told from the ones before
ReaderAcquire ==
    /\ reader = None
    /\ Commit([World EXCEPT !.reader = Some([sv |-> tsf.super_version,
                                             seq |-> next_seq])])
    /\ UNCHANGED <<next_seq, next_file_id>>

\* the vnode's caches: writes, rotations, flush requests, the flush worker
\* and the Versions the flushes install
Next ==
    \/ PutPoints
    \/ CheckToFlush
    \/ SwitchToImmutable
    \/ SwitchMemcache
    \/ WrapFlushReq
    \/ FlushWorker
    \/ FlushInstall
    \/ ReaderAcquire

Spec == Init /\ [][Next]_vars

\* the vnode's Versions: edits of flushes and compactions applied, then
\* installed or discarded, while the caches rotate
NextVersions ==
    \/ PutPoints
    \/ ApplyVnodeEdits
    \/ NewVersion
    \/ DiscardEdits
    \/ SwitchToImmutable
    \/ ReaderAcquire

SpecVersions == Init /\ [][NextVersions]_vars

DeleteSeries ==
    /\ \E sids \in DeleteSids, time_range \in DeleteRanges :
          Commit([World EXCEPT !.caches = DeleteSeriesOp(tsf, caches, sids, time_range)])
    /\ UNCHANGED <<next_seq, next_file_id>>

\* the life of the vnode's caches: writes, deletes, rotations, flush
\* requests, and a flush worker that succeeds or fails
NextFlush ==
    \/ PutPoints
    \/ DeleteSeries
    \/ CheckToFlush
    \/ SwitchToImmutable
    \/ SwitchMemcache
    \/ WrapFlushReq
    \/ FlushWorker
    \/ FlushWorkerFail

SpecFlush == Init /\ [][NextFlush]_vars

\* wrap_flush_req(true)
WrapFlushReqForce ==
    /\ Len(chan) < MaxQueue
    /\ \E r \in {WrapFlushReqOp(tsf, svs, caches, chan, TRUE)} :
          \E w \in {[World EXCEPT !.tsf = r.tsf, !.svs = r.svs, !.caches = r.caches,
                                  !.chan = r.chan]} :
             Commit(w)
    /\ UNCHANGED <<next_seq, next_file_id>>

\* the life of the vnode's caches with a flush worker that does not fail:
\* it goes on taking the requests sent, and wrap_flush_req(true) goes on
\* being called
NextSweep ==
    \/ PutPoints
    \/ CheckToFlush
    \/ SwitchToImmutable
    \/ SwitchMemcache
    \/ WrapFlushReq
    \/ FlushWorker

SpecSweep ==
    /\ Init
    /\ [][NextSweep]_vars
    /\ WF_vars(FlushWorker)
    /\ WF_vars(WrapFlushReqForce)

----------------------------------------------------------------------------
(* copy_apply_version_edits on its own: a recovered Version and a batch of *)
(* edits are drawn, the batch is applied, applied a second time, and       *)
(* applied edit by edit                                                    *)

InitEdits ==
    /\ \E metas \in InitMetaLists : InitWith(metas)
    /\ vs_in = None
    /\ vs = Ok(VersionSetEmpty)
    /\ probe = None
    /\ meta_client = RemoteMetaClientSelf

EditApply ==
    /\ pending = None
    /\ \E version_edits \in Batches, last_seq \in LastSeqs :
          Commit(ApplyEdits(version_edits, last_seq))
    /\ UNCHANGED <<next_seq, next_file_id>>

\* the same call once more: same Version, same edits, same last_seq
EditApplyAgain ==
    /\ pending # None
    /\ again = None
    /\ LET p == pending[1]
           r == CopyApplyVersionEdits(files, versions[p.src], p.edits, p.last_seq)
       IN Commit([World EXCEPT !.files = r.heap, !.again = Some([version |-> r.version])])
    /\ UNCHANGED <<next_seq, next_file_id>>

\* v.copy_apply_version_edits(vec![e], last_seq) for each e of the batch in
\* order, each call on the Version the one before returned
RECURSIVE ApplyOneByOne(_, _, _, _)
ApplyOneByOne(heap, v, version_edits, last_seq) ==
    IF version_edits = <<>> THEN [heap |-> heap, version |-> v]
    ELSE LET r == CopyApplyVersionEdits(heap, v, <<Head(version_edits)>>, last_seq)
         IN ApplyOneByOne(r.heap, r.version, Tail(version_edits), last_seq)

EditApplyOneByOne ==
    /\ again # None
    /\ stepwise = None
    /\ LET p == pending[1]
           r == ApplyOneByOne(files, versions[p.src], p.edits, p.last_seq)
       IN Commit([World EXCEPT !.files = r.heap,
                               !.stepwise = Some([version |-> r.version])])
    /\ UNCHANGED <<next_seq, next_file_id>>

NextEdits ==
    \/ EditApply
    \/ EditApplyAgain
    \/ EditApplyOneByOne

SpecEdits == InitEdits /\ [][NextEdits]_vars

----------------------------------------------------------------------------
(* The VersionSet: built by VersionSet::new from a meta accessor and a     *)
(* ver_set, then databases are created and deleted, vnodes are added and   *)
(* Versions are installed in them                                          *)

\* what get_db_schema of a tenant's client answers for a database
SchemaAnswers == {"err", "none", "some"}

ClientOf(tenant, answers) ==
    [get_db_schema |->
        [d \in Databases |->
            CASE answers[d] = "err" -> Err
              [] answers[d] = "none" -> Ok(None)
              [] OTHER -> Ok(Some(StoredSchema(tenant, d)))]]

\* the meta accessors: the tenant is unknown, or its client answers
Metas ==
    {[tenant_meta |-> [t \in Tenants |-> None]]} \cup
    {[tenant_meta |-> [t \in Tenants |-> Some(ClientOf(t, answers))]] :
        answers \in [Databases -> SchemaAnswers]}

\* the ver_sets: some vnode ids, each with its database and a Version
VerSets ==
    UNION {{[id \in ids |-> [database |-> own[id],
                             version |-> VersionNew(id, seq[id], InitLevels(id),
                                                    TimestampMIN)]] :
              own \in [ids -> Owners], seq \in [ids -> {0, MaxLastSeq}]} :
           ids \in SUBSET (1..MaxVnodes)}

InitVersionSet ==
    /\ InitWith(<<Meta(1, 0), Meta(2, 1)>>)
    /\ \E meta \in Metas, ver_set \in VerSets :
          /\ vs_in = Some([meta |-> meta, ver_set |-> ver_set])
          /\ vs = VersionSetNew(meta, ver_set)
    /\ probe = None
    /\ meta_client = RemoteMetaClientSelf

CreateDb ==
    /\ vs.ok
    /\ \E owner \in Owners :
          vs' = Ok(CreateDbOp(vs.val, DatabaseSchemaNew(owner.tenant, owner.database)))
    /\ vs_in' = None
    /\ UNCHANGED <<vnode_vars, tomb, probe, meta_client>>

DeleteDb ==
    /\ vs.ok
    /\ \E owner \in Owners : vs' = Ok(DeleteDbOp(vs.val, owner.tenant, owner.database))
    /\ vs_in' = None
    /\ UNCHANGED <<vnode_vars, tomb, probe, meta_client>>

\* a vnode is added to a database under an id no live vnode has
AddTsfamily ==
    /\ vs.ok
    /\ \E owner \in DOMAIN vs.val.dbs, id \in 1..MaxVnodes, last_seq \in {0, MaxLastSeq} :
          /\ GetTsfamilyByTfId(vs.val, id) = None
          /\ vs' = Ok([vs.val EXCEPT !.dbs[owner] =
                          OpenTsfamily(@, VersionNew(id, last_seq, InitLevels(id),
                                                     TimestampMIN))])
    /\ vs_in' = None
    /\ UNCHANGED <<vnode_vars, tomb, probe, meta_client>>

\* new_version on a live vnode: the Version installed carries a later
\* last_seq than the vnode's seq_no
TsFamilyInstall ==
    /\ vs.ok
    /\ \E p \in TsFamilies(vs.val), last_seq \in 0..MaxLastSeq :
          /\ last_seq > SeqNoOf(vs.val, p)
          /\ vs' = Ok(TsFamilyNewVersion(vs.val, p[1], p[2], last_seq))
    /\ vs_in' = None
    /\ UNCHANGED <<vnode_vars, tomb, probe, meta_client>>

NextVersionSet ==
    \/ CreateDb
    \/ DeleteDb
    \/ AddTsfamily
    \/ TsFamilyInstall

SpecVersionSet == InitVersionSet /\ [][NextVersionSet]_vars

----------------------------------------------------------------------------
(* The life of the ColumnFiles: compactions are picked, edits are applied, *)
(* Versions are installed or discarded, readers come and go                *)

\* CompactReq of one file of Version v that is neither deleted nor being
\* compacted: the request holds the file and the Version
CompactReqs(heap, version, v) ==
    {[ts_family_id |-> v.ts_family_id, files |-> <<v.levels_info[p[1]].files[p[2]]>>,
      version |-> version, out_level |-> v.levels_info[p[1]].level + 1] :
        p \in {q \in (1..(NumLevels - 1)) \X (1..Len(heap)) :
                 /\ q[2] <= Len(v.levels_info[q[1]].files)
                 /\ ~heap[v.levels_info[q[1]].files[q[2]]].deleted
                 /\ ~heap[v.levels_info[q[1]].files[q[2]]].compacting}}

\* pick_compaction: the picker is given the vnode's Version; the files of
\* the request it returns are marked compacting
PickCompaction ==
    /\ compact_req = None
    /\ \E req \in CompactReqs(files, tsf.version, versions[tsf.version]) :
          Commit([World EXCEPT !.files = MarkCompacting(files, req.files[1]),
                               !.compact_req = Some(req)])
    /\ UNCHANGED <<next_seq, next_file_id>>

\* the compaction job ends and its CompactReq is dropped
CompactReqDrop ==
    /\ compact_req # None
    /\ Commit([World EXCEPT !.compact_req = None])
    /\ UNCHANGED <<next_seq, next_file_id>>

\* the reader drops its SuperVersion handle
ReaderRelease ==
    /\ reader # None
    /\ Commit([World EXCEPT !.reader = None])
    /\ UNCHANGED <<next_seq, next_file_id>>

NextFiles ==
    \/ PickCompaction
    \/ CompactReqDrop
    \/ ApplyVnodeEdits
    \/ NewVersion
    \/ DiscardEdits
    \/ ReaderAcquire
    \/ ReaderRelease

SpecFiles == Init /\ [][NextFiles]_vars

----------------------------------------------------------------------------
(* get_version_edit: the vnode's Version changes by flushes and            *)
(* compactions and is written out as an edit                               *)

\* what a level lists of each of its files, in list order
LevelEntries(heap, lvl) ==
    [k \in DOMAIN lvl.files |->
        [file_id |-> heap[lvl.files[k]].file_id, size |-> heap[lvl.files[k]].size,
         time_range |-> heap[lvl.files[k]].time_range,
         is_delta |-> heap[lvl.files[k]].is_delta]]

VersionEntries(heap, levels_info) ==
    [i \in DOMAIN levels_info |-> LevelEntries(heap, levels_info[i])]

\* the caller keeps the edit returned; levels is what the Version listed at
\* the time of the call
GetVersionEdit ==
    /\ \E last_seq \in 0..MaxLastSeq, tsf_name \in Databases :
          probe' = Some([last_seq |-> last_seq, tsf_name |-> tsf_name,
                         levels |-> VersionEntries(files, versions[tsf.version].levels_info),
                         version_edit |-> GetVersionEditOp(tsf, versions, files,
                                                           last_seq, tsf_name)])
    /\ UNCHANGED <<vnode_vars, vs_in, vs, tomb, meta_client>>

NextVersionEdit ==
    \/ GetVersionEdit
    \/ ApplyVnodeEdits
    \/ NewVersion

SpecVersionEdit == InitEdits /\ [][NextVersionEdit]_vars

----------------------------------------------------------------------------
(* read_column_file: a level of the vnode's Version is scanned, and the    *)
(* calls on the file system succeed or fail                                *)

\* the time ranges scanned: everything, and a range that the files with the
\* greater ids do not overlap
ScanRanges == {TimeRangeAll, TimeRangeNew(0, 15)}

\* no call fails, or the open of one file does, or the read of one block
\* does, or both
NoFailure == [fail_open |-> 0, fail_block |-> <<0, 0>>]

IoOutcomes ==
    {[fail_open |-> f, fail_block |-> b] :
        f \in {0} \cup FileIds,
        b \in {<<0, 0>>} \cup (FileIds \X (1..MaxBlocks))}

Scan ==
    /\ probe = None
    /\ \E i \in 1..NumLevels, time_range \in ScanRanges, io \in IoOutcomes :
          probe' = Some([level |-> i, time_range |-> time_range, io |-> io,
                         version |-> versions[tsf.version], heap |-> files,
                         scan |-> ReadColumnFileOp(files, versions[tsf.version].levels_info[i],
                                                   time_range, io)])
    /\ UNCHANGED <<vnode_vars, vs_in, vs, tomb, meta_client>>

\* a level of the vnode's Version is scanned, before or after a compaction
\* or a flush has built the next Version from it
NextScan ==
    \/ Scan
    \/ ApplyVnodeEdits

SpecScan == InitEdits /\ [][NextScan]_vars

----------------------------------------------------------------------------
(* TimeRange: two ranges are drawn and compared *)

Timestamps == {TimestampMIN, TimestampMAX} \cup 0..MaxTs

\* TimeRange::new(min_ts, max_ts) for every pair: the ranges with
\* min_ts <= max_ts, the (Timestamp::MAX, Timestamp::MIN) of an empty level
\* and the other pairs new accepts
TimeRanges == {TimeRangeNew(min_ts, max_ts) : min_ts \in Timestamps, max_ts \in Timestamps}

InitTimeRange ==
    /\ InitWith(<<Meta(1, 0), Meta(2, 1)>>)
    /\ vs_in = None
    /\ vs = Ok(VersionSetEmpty)
    /\ \E a \in TimeRanges, b \in TimeRanges : probe = Some([a |-> a, b |-> b])
    /\ meta_client = RemoteMetaClientSelf

\* a.overlaps(&b), b.overlaps(&a) and a.includes(&b)
TimeRangeCompare ==
    /\ probe # None
    /\ DOMAIN probe[1] = {"a", "b"}
    /\ probe' = Some([a |-> probe[1].a, b |-> probe[1].b,
                      a_overlaps_b |-> Overlaps(probe[1].a, probe[1].b),
                      b_overlaps_a |-> Overlaps(probe[1].b, probe[1].a),
                      a_includes_b |-> Includes(probe[1].a, probe[1].b)])
    /\ UNCHANGED <<vnode_vars, vs_in, vs, tomb, meta_client>>

NextTimeRange == TimeRangeCompare

SpecTimeRange == InitTimeRange /\ [][NextTimeRange]_vars

----------------------------------------------------------------------------
(* add_tombstone: callers run it concurrently on the ColumnFiles of the    *)
(* vnode; a call is suspended at each of its three awaits, and any ? ends  *)
(* it                                                                      *)

\* TsmTombstone::open(dir, self.file_id).await
AddTombstoneOpen(p) ==
    /\ tomb.calls[p].pc = "idle"
    /\ \E h \in DOMAIN files, time_range \in DeleteRanges :
          /\ files[h] # Dropped
          /\ tomb' = [tomb EXCEPT !.calls[p] =
                         [pc |-> "opened", file |-> h, time_range |-> time_range]]
    /\ UNCHANGED <<vnode_vars, vs_in, vs, probe, meta_client>>

\* tombstone.add_range(field_ids, time_range).await
AddTombstoneAddRange(p) ==
    /\ tomb.calls[p].pc = "opened"
    /\ tomb' = [tomb EXCEPT !.calls[p].pc = "added"]
    /\ UNCHANGED <<vnode_vars, vs_in, vs, probe, meta_client>>

\* tombstone.flush().await and Ok(()): the appended range is in the file
AddTombstoneFlush(p) ==
    /\ tomb.calls[p].pc = "added"
    /\ tomb' = [tomb EXCEPT !.disk[tomb.calls[p].file] = @ \cup {tomb.calls[p].time_range},
                            !.calls[p] = [pc |-> "idle"]]
    /\ UNCHANGED <<vnode_vars, vs_in, vs, probe, meta_client>>

\* add_range or flush returns an error and ? ends the call
AddTombstoneError(p) ==
    /\ tomb.calls[p].pc \in {"opened", "added"}
    /\ tomb' = [tomb EXCEPT !.calls[p] = [pc |-> "idle"]]
    /\ UNCHANGED <<vnode_vars, vs_in, vs, probe, meta_client>>

NextTombstone ==
    \E p \in 1..MaxCallers :
        \/ AddTombstoneOpen(p)
        \/ AddTombstoneAddRange(p)
        \/ AddTombstoneFlush(p)
        \/ AddTombstoneError(p)

SpecTombstone == Init /\ [][NextTombstone]_vars

----------------------------------------------------------------------------
(* The RemoteMetaClient's threads: new with its first sync, the watch_data *)
(* thread, and the callers of create_db, create_table, update_table and    *)
(* create_bucket. A request to the meta service and the handling of its    *)
(* response are two steps; the response is handled under data.write().     *)

Versions == 0..MaxVersion
Dbs == 1..MaxDbs
TenantMetaDatas == {TenantMetaData(v, dbs) : v \in Versions, dbs \in SUBSET Dbs}

\* what client.read and client.write return: an error, or a
\* TenaneMetaDataResp with a status code and the service's metadata
MetaResponses ==
    {Err} \cup {Ok([status |-> code, data |-> d]) : code \in {0, -1}, d \in TenantMetaDatas}

\* what watch_tenant returns on success: a full load carries the metadata
\* in update, an incremental delta carries what to merge, what to delete
\* and the range of versions it leads across
Deltas ==
    {[full_load |-> TRUE, update |-> d, delete |-> TenantMetaDataNew, ver_range |-> <<0, d.version>>] :
        d \in TenantMetaDatas}
    \cup
    {[full_load |-> FALSE, update |-> TenantMetaData(r[2], add),
      delete |-> TenantMetaData(r[2], del), ver_range |-> r] :
        add \in SUBSET Dbs, del \in SUBSET Dbs, r \in Versions \X Versions}

MetaUnchanged ==
    UNCHANGED <<vnode_vars, vs_in, vs, tomb, probe>>

\* RemoteMetaClient::new: the first sync_all_tenant_metadata, whose error
\* is dropped, then the watch_data thread is spawned and the client returned
RemoteMetaClientNew ==
    /\ meta_client.pc = "new"
    /\ \E rsp \in MetaResponses :
          meta_client' = [meta_client EXCEPT
                             !.data = SyncAllTenantMetadataOp(@, rsp),
                             !.pc = "loop"]
    /\ MetaUnchanged

\* watch_data: cmd.3 takes the cached version and watch_tenant is called;
\* when it returns, an Ok(delta) is applied and an Err is logged
WatchData ==
    /\ \/ /\ meta_client.pc = "loop"
          /\ meta_client' = [meta_client EXCEPT
                                !.cmd3 = meta_client.data.version,
                                !.pc = "watch_tenant"]
       \/ /\ meta_client.pc = "watch_tenant"
          /\ \E r \in {Err} \cup {Ok(delta) : delta \in Deltas} :
                meta_client' = [meta_client EXCEPT
                                   !.data = IF r.ok THEN WatchDataApply(@, r.val) ELSE @,
                                   !.pc = "loop"]
    /\ MetaUnchanged

\* a caller sends the write request of op
MetaWriteSend(op) ==
    /\ meta_client.pc # "new"
    /\ op \notin meta_client.writes
    /\ meta_client' = [meta_client EXCEPT !.writes = @ \cup {op}]

RemoteCreateDb ==
    /\ \/ MetaWriteSend("create_db")
       \/ /\ "create_db" \in meta_client.writes
          /\ \E rsp \in MetaResponses :
                meta_client' = [meta_client EXCEPT
                                   !.data = RemoteCreateDbOp(@, rsp),
                                   !.writes = @ \ {"create_db"}]
    /\ MetaUnchanged

RemoteCreateTable ==
    /\ \/ MetaWriteSend("create_table")
       \/ /\ "create_table" \in meta_client.writes
          /\ \E rsp \in MetaResponses :
                meta_client' = [meta_client EXCEPT
                                   !.data = RemoteCreateTableOp(@, rsp),
                                   !.writes = @ \ {"create_table"}]
    /\ MetaUnchanged

RemoteUpdateTable ==
    /\ \/ MetaWriteSend("update_table")
       \/ /\ "update_table" \in meta_client.writes
          /\ \E rsp \in MetaResponses :
                meta_client' = [meta_client EXCEPT
                                   !.data = RemoteUpdateTableOp(@, rsp),
                                   !.writes = @ \ {"update_table"}]
    /\ MetaUnchanged

RemoteCreateBucket ==
    /\ \/ MetaWriteSend("create_bucket")
       \/ /\ "create_bucket" \in meta_client.writes
          /\ \E rsp \in MetaResponses :
                meta_client' = [meta_client EXCEPT
                                   !.data = RemoteCreateBucketOp(@, rsp),
                                   !.writes = @ \ {"create_bucket"}]
    /\ MetaUnchanged

NextMeta ==
    \/ RemoteMetaClientNew
    \/ WatchData
    \/ RemoteCreateDb
    \/ RemoteCreateTable
    \/ RemoteUpdateTable
    \/ RemoteCreateBucket

SpecMeta == Init /\ [][NextMeta]_vars

----------------------------------------------------------------------------
(* Properties of copy_apply_version_edits, checked under SpecEdits *)

\* the call whose result is pending: its source Version and its result
Src == versions[pending[1].src]
Built == pending[1].version

FileIdSet(heap, lvl) == {heap[h].file_id : h \in SeqRange(lvl.files)}

\* the handles of the files of source level i that no del_files entry for
\* that level names
Survivors(i) ==
    LET dels == SeqRange(AllDelFiles(pending[1].edits))
    IN {h \in SeqRange(Src.levels_info[i].files) :
          ~\E d \in dels : d.level = i - 1 /\ d.file_id = files[h].file_id}

\* the add_files entries of the batch that target level i
AddsFor(i) == SelectSeq(AllAddFiles(pending[1].edits), LAMBDA m : m.level = i - 1)

\* the handles of level i of the result that the call allocated
Fresh(i) == SeqRange(Built.levels_info[i].files) \ VersionFiles(Src)

\* C5: copy_apply_version_edits(edits, Some(s)) returns a Version with
\* last_seq = s (and the source's last_seq for None) in which every level
\* 0..4 holds exactly the source files of that level that no del_files entry
\* for the level names, by the same handles, plus one fresh file per
\* add_files entry targeting the level; a level no edit mentions keeps its
\* file list, and a level left without files has time_range
\* (Timestamp::MAX, Timestamp::MIN).
C5_ApplyResult ==
    pending # None =>
        /\ Built.last_seq = (IF pending[1].last_seq = None THEN Src.last_seq
                             ELSE pending[1].last_seq[1])
        /\ \A i \in 1..NumLevels :
              LET survivors == Survivors(i)
                  adds == AddsFor(i)
                  fresh == Fresh(i)
              IN
              /\ SeqRange(Built.levels_info[i].files) \cap VersionFiles(Src) = survivors
              /\ Len(Built.levels_info[i].files) = Cardinality(survivors) + Len(adds)
              /\ \A id \in FileIds :
                    Cardinality({h \in fresh : files[h].file_id = id})
                        = Cardinality({k \in DOMAIN adds : adds[k].file_id = id})
              /\ \A h \in fresh : ~files[h].deleted /\ files[h].level = i - 1
              /\ (adds = <<>>
                  /\ survivors = SeqRange(Src.levels_info[i].files)
                    => Built.levels_info[i].files = Src.levels_info[i].files)
              /\ (Built.levels_info[i].files = <<>>
                    => Built.levels_info[i].time_range
                          = TimeRangeNew(TimestampMAX, TimestampMIN))

\* a call with Some(s) that empties one level, keeps the file of another
\* level and adds a file
C5_Witness ==
    /\ pending # None
    /\ pending[1].last_seq # None
    /\ \E i \in 1..NumLevels :
          Src.levels_info[i].files # <<>> /\ Built.levels_info[i].files = <<>>
    /\ \E i \in 1..NumLevels : Fresh(i) # {}
    /\ \E i \in 1..NumLevels : Survivors(i) # {}

\* C6 (as claimed): after copy_apply_version_edits(V, E), every ColumnFile of
\* V or of the result whose level and file_id a del_files entry of E names
\* is marked deleted, also when the file was added by an add_files entry of
\* the same batch.
C6_DelFilesMarked ==
    pending # None =>
        \A d \in SeqRange(AllDelFiles(pending[1].edits)) :
            \A h \in VersionFiles(Src) \cup VersionFiles(Built) :
                files[h].level = d.level /\ files[h].file_id = d.file_id
                    => files[h].deleted

\* C7 (as claimed): after copy_apply_version_edits(V, E), for every
\* CompactMeta of an add_files entry of E, whatever its level, the result
\* has the target level and holds there one fresh file of that file_id per
\* entry naming it (whether or not a file of that id survives in the level).
C7_AddedExactlyOnce ==
    pending # None =>
        \A m \in SeqRange(AllAddFiles(pending[1].edits)) :
            /\ m.level + 1 \in DOMAIN Built.levels_info
            /\ Cardinality({h \in Fresh(m.level + 1) : files[h].file_id = m.file_id})
                  = Cardinality({k \in DOMAIN AddsFor(m.level + 1) :
                                    AddsFor(m.level + 1)[k].file_id = m.file_id})

\* what two Versions are compared by: last_seq, max_level_ts and, per level,
\* the ids, sizes and time ranges of the files, the level's size and range
VersionView(heap, v) ==
    [last_seq |-> v.last_seq, max_level_ts |-> v.max_level_ts,
     levels |-> [i \in DOMAIN v.levels_info |->
                    [files |-> [k \in DOMAIN v.levels_info[i].files |->
                                   LET f == heap[v.levels_info[i].files[k]]
                                   IN <<f.file_id, f.size, f.time_range>>],
                     cur_size |-> v.levels_info[i].cur_size,
                     time_range |-> v.levels_info[i].time_range]]]

\* C8 (as claimed): copy_apply_version_edits is pure: the call changes no
\* ColumnFile of the source Version and leaves the source Version as it
\* was, and a second identical call returns an equal Version that shares
\* the retained files.
C8_Pure ==
    [][/\ (pending = None /\ pending' # None
            => /\ versions'[tsf.version] = versions[tsf.version]
               /\ \A h \in VersionFiles(versions[tsf.version]) : files'[h] = files[h])
       /\ (again = None /\ again' # None
            => /\ VersionView(files', again'[1].version) = VersionView(files', Built)
               /\ \A i \in 1..NumLevels :
                     SeqRange(again'[1].version.levels_info[i].files)
                         \cap VersionFiles(Src)
                       = SeqRange(Built.levels_info[i].files) \cap VersionFiles(Src))
      ]_vars

\* C10 (as claimed): the batch [e1..en] applied in one call yields, level by
\* level, the same set of file ids as e1, ..., en applied one call each.
C10_AppendOrder ==
    stepwise # None =>
        \A i \in 1..NumLevels :
            FileIdSet(files, Built.levels_info[i])
                = FileIdSet(files, stepwise[1].version.levels_info[i])

----------------------------------------------------------------------------
(* Properties of the vnode, checked under Spec and SpecVersions *)

\* the SuperVersion behind the reader's handle, and the published one
Held == svs[reader[1].sv]
Published == svs[tsf.super_version]

\* the caches a SuperVersion refers to
HandleCaches(sv) == {sv.caches.mut_cache} \cup SeqRange(sv.caches.immut_cache)

\* the files of Version v that a del_files entry of version_edits names
NamedByDel(heap, v, version_edits) ==
    {h \in VersionFiles(v) :
        \E d \in SeqRange(AllDelFiles(version_edits)) :
            d.level = heap[h].level /\ d.file_id = heap[h].file_id}

\* the handles read_column_file visits in level i of Version v
Visited(heap, v, i) == SeqRange(ScanVersion(heap, v, TimeRangeAll)[i])

\* C1 (as claimed): once a reader holds SuperVersion S1, no step of the
\* writer (switch_to_immutable, copy_apply_version_edits, new_version) makes
\* read_column_file skip a file of S1.version that it visited before.
C1_SnapshotScan ==
    [][reader # None /\ reader' = reader
          => \A i \in 1..NumLevels :
                Visited(files, versions[Held.version], i)
                    \subseteq Visited(files', versions'[Held'.version], i)]_vars

\* C2: the SuperVersion behind a handle the reader holds is the same tuple
\* (mutable cache, immutable caches, Version, version_number) after every
\* step of the vnode; super_version() hands out the published SuperVersion;
\* and a step that changes the vnode's list of immutable caches publishes a
\* new SuperVersion object that carries the new list.
C2_HandleImmutable ==
    [][/\ (reader # None /\ reader' = reader => Held' = Held)
       /\ (reader = None /\ reader' # None
             => reader'[1].sv = tsf.super_version /\ Held' = Published)
       /\ (tsf'.immut_cache # tsf.immut_cache
             => /\ tsf'.super_version # tsf.super_version
                /\ Published'.caches.immut_cache = tsf'.immut_cache)]_vars

\* the reader holds a SuperVersion that has since been replaced: the caches
\* were rotated, a Version was installed and a write was made
C2_Witness ==
    /\ reader # None
    /\ reader[1].sv # tsf.super_version
    /\ Published.caches.immut_cache # Held.caches.immut_cache
    /\ Published.version # Held.version
    /\ \E r \in caches[Published.caches.mut_cache].rows : r.seq >= reader[1].seq

\* C3 (as claimed): a put_points made while the reader's SuperVersion is the
\* published one leaves the rows the reader sees in its caches unchanged.
C3_PutInvisible ==
    [][reader # None /\ reader' = reader /\ reader[1].sv = tsf.super_version
         /\ next_seq' # next_seq
          => CacheRows(caches', Held') = CacheRows(caches, Held)]_vars

\* C3 (amended): a put_points changes the rows the reader sees through its
\* handle exactly when the mutable cache of the published SuperVersion is
\* one of the caches of the reader's SuperVersion; it is visible until a
\* rotation gives the published SuperVersion another mutable cache, and
\* invisible afterwards.
C3_PutVisibleWhileShared ==
    [][reader # None /\ reader' = reader /\ next_seq' # next_seq
          => (CacheRows(caches', Held') # CacheRows(caches, Held)
                <=> Published.caches.mut_cache \in HandleCaches(Held))]_vars

\* the reader sees, in the mutable cache of its SuperVersion, a row written
\* after it acquired the handle
C3_Witness ==
    /\ reader # None
    /\ \E r \in caches[Held.caches.mut_cache].rows : r.seq >= reader[1].seq

\* C4: super_version_id is 0 at first; the published SuperVersion's
\* version_number equals it in every state; and every step that changes the
\* vnode's mutable cache, immutable caches or Version, or the published
\* SuperVersion, publishes a new SuperVersion under a greater id.
C4_IdIncreases ==
    /\ tsf.super_version_id = 0
    /\ [](Published.version_number = tsf.super_version_id)
    /\ [][(\/ tsf'.super_version # tsf.super_version
           \/ tsf'.mut_cache # tsf.mut_cache
           \/ tsf'.immut_cache # tsf.immut_cache
           \/ tsf'.version # tsf.version)
             => /\ tsf'.super_version # tsf.super_version
                /\ tsf'.super_version_id > tsf.super_version_id]_vars

\* the SuperVersion has been replaced by a rotation, by a flush_req that
\* removed the flushed cache and by new_version
C4_Witness ==
    /\ tsf.super_version_id >= 3
    /\ tsf.immut_cache = <<>>
    /\ tsf.mut_cache # 1
    /\ tsf.version # 1

\* C9 (as claimed): when a built Version is discarded instead of installed,
\* read_column_file still visits every file of the vnode's current Version
\* that the discarded edits name.
C9_DiscardedNoEffect ==
    [][pending # None /\ pending' = None /\ tsf'.version = tsf.version
          => \A h \in NamedByDel(files', versions'[tsf'.version], pending[1].edits) :
                h \in Visited(files', versions'[tsf'.version], files'[h].level + 1)]_vars

----------------------------------------------------------------------------
(* Properties of the flush path, checked under SpecFlush *)

\* the caches a FlushReq lists
ReqCaches(req) == {req.mems[j][2] : j \in DOMAIN req.mems}

\* the caches listed by the FlushReqs waiting on the flush channel
QueuedCaches == UNION {ReqCaches(chan[i]) : i \in DOMAIN chan}

\* the caches that are neither flushed nor flushing, of the list immut
Unselected(cache_heap, immut) ==
    SelectSeq(immut, LAMBDA mem : ~cache_heap[mem].flushed /\ ~cache_heap[mem].flushing)

\* C11: a cache's flushing flag is never reset; a FlushReq a step sends
\* lists no cache twice and only caches whose flag was unset before the
\* step and is set after it, so no cache is in two FlushReqs; and a cache
\* of the immutable list that is not flushed stays in the list (a cache
\* whose flush failed is kept, and is not selected again).
C11_SelectedOnce ==
    [][/\ \A c \in DOMAIN caches :
             caches[c] # Dropped /\ caches'[c] # Dropped /\ caches[c].flushing
                => caches'[c].flushing
       /\ Len(chan') > Len(chan)
            => LET req == chan'[Len(chan')]
               IN /\ \A j, k \in DOMAIN req.mems :
                        j # k => req.mems[j][2] # req.mems[k][2]
                  /\ \A c \in ReqCaches(req) :
                        ~caches[c].flushing /\ caches'[c].flushing
       /\ \A c \in SeqRange(tsf.immut_cache) :
             ~caches[c].flushed => c \in SeqRange(tsf'.immut_cache)]_vars

\* a cache whose flush failed is still in the immutable list, in no queued
\* FlushReq, while a FlushReq sent later lists another cache
C11_Witness ==
    \E c1, c2 \in SeqRange(tsf.immut_cache) :
        /\ c1 # c2
        /\ caches[c1].flushing /\ ~caches[c1].flushed
        /\ c1 \notin QueuedCaches
        /\ c2 \in QueuedCaches

\* the stage of cache c in its life: 0 Mutable, 1 Immutable, 2 Flushing,
\* 3 Flushed, 4 Reclaimed
Stage(cache_heap, t, c) ==
    IF cache_heap[c] = Dropped THEN 4
    ELSE IF c \in SeqRange(t.immut_cache)
         THEN IF cache_heap[c].flushed THEN 3
              ELSE IF cache_heap[c].flushing THEN 2 ELSE 1
         ELSE IF c = t.mut_cache THEN 0 ELSE 4

\* C12: in every step no cache moves to an earlier stage; a cache becomes
\* Flushed only from Flushing and Reclaimed only from Flushed; a cache that
\* goes from Mutable to Flushing in one step (check_to_flush) is Immutable
\* after the switch_to_immutable that step begins with; a Reclaimed cache
\* is never in the immutable list again; and a new cache starts Mutable.
C12_Lifecycle ==
    [][/\ \A c \in DOMAIN caches :
             LET a == Stage(caches, tsf, c)
                 b == Stage(caches', tsf', c)
             IN /\ b >= a
                /\ b = 3 => a >= 2
                /\ b = 4 => a >= 3
                /\ (a = 0 /\ b = 2)
                     => LET s == SwitchToImmutableOp(tsf, svs, caches)
                        IN Stage(s.caches, s.tsf, c) = 1
                /\ a = 4 => c \notin SeqRange(tsf'.immut_cache)
       /\ \A c \in DOMAIN caches' \ DOMAIN caches : Stage(caches', tsf', c) = 0]_vars

\* the first cache has been reclaimed and dropped, a later one is Flushed
\* and waits for the next sweep
C12_Witness ==
    /\ caches[1] = Dropped
    /\ \E d \in SeqRange(tsf.immut_cache) : Stage(caches, tsf, d) = 3

----------------------------------------------------------------------------
(* Properties of the VersionSet, checked under SpecVersionSet *)

LiveSeqNos == {SeqNoOf(vs.val, p) : p \in TsFamilies(vs.val)}

\* C16: whenever vnodes are live, get_global_sequence_context returns the
\* least seq_no of the live vnodes as min_seq, and a map that holds, for
\* each live vnode, its seq_no.
C16_MinSeqIsMinimum ==
    (vs.ok /\ TsFamilies(vs.val) # {}) =>
        LET ctx == GetGlobalSequenceContext(vs.val)
        IN /\ ctx.min_seq \in LiveSeqNos
           /\ \A n \in LiveSeqNos : ctx.min_seq <= n
           /\ DOMAIN ctx.tsf_seq_map = {p[2] : p \in TsFamilies(vs.val)}
           /\ \A p \in TsFamilies(vs.val) : ctx.tsf_seq_map[p[2]] = SeqNoOf(vs.val, p)

\* C17: in every state of the VersionSet the min_seq that
\* get_global_sequence_context returns is at most the seq_no of every live
\* vnode.
C17_MinSeqBelowAll ==
    vs.ok => \A n \in LiveSeqNos : GetGlobalSequenceContext(vs.val).min_seq <= n

\* two vnodes are live with different seq_nos above zero, one of them after
\* a new_version
C17_Witness ==
    /\ vs.ok
    /\ \E p, q \in TsFamilies(vs.val) :
          /\ 0 < SeqNoOf(vs.val, p)
          /\ SeqNoOf(vs.val, p) < SeqNoOf(vs.val, q)
          /\ vs.val.dbs[p[1]].ts_families[p[2]].tsf.super_version_id > 0

\* the databases of the ver_set's vnodes for which get_db_schema fails
FailedLookups ==
    {id \in DOMAIN vs_in[1].ver_set :
        LET owner == vs_in[1].ver_set[id].database
            client == vs_in[1].meta.tenant_meta[owner.tenant]
        IN client # None /\ ~client[1].get_db_schema[owner.database].ok}

\* C18: when get_db_schema fails for the database of a vnode of the
\* ver_set, VersionSet::new still returns a VersionSet, in which that
\* database has the default DatabaseSchema and get_tsfamily_by_tf_id finds
\* the vnode.
C18_LookupFailureTolerated ==
    vs_in # None =>
        \A id \in FailedLookups :
            LET owner == vs_in[1].ver_set[id].database
            IN /\ vs.ok
               /\ owner \in DOMAIN vs.val.dbs
               /\ vs.val.dbs[owner].schema =
                     DatabaseSchemaNew(owner.tenant, owner.database)
               /\ GetTsfamilyByTfId(vs.val, id) # None


----------------------------------------------------------------------------
(* Properties of delete_series, checked under SpecFlush *)

\* the caches the vnode holds: its mutable cache and its immutable list
VnodeCaches == {tsf.mut_cache} \cup SeqRange(tsf.immut_cache)

\* C19: in every state, after delete_series(sids, time_range) no cache the
\* vnode holds, mutable or immutable, flushing or flushed or neither,
\* returns for a series of sids a row whose timestamp lies in time_range.
C19_DeletedRowsGone ==
    \A sids \in DeleteSids, time_range \in DeleteRanges :
        LET after == DeleteSeriesOp(tsf, caches, sids, time_range)
        IN \A c \in VnodeCaches : \A sid \in sids : \A ts \in GetData(after[c], sid) :
              ts < time_range.min_ts \/ ts > time_range.max_ts

\* delete_series({0}, [0, 200]) has acted on an immutable cache that is
\* flushing: of series 0 it returns only the row outside the range, and
\* the row of series 1 inside the range is still returned
C19_Witness ==
    \E c \in SeqRange(tsf.immut_cache) :
        /\ caches[c].flushing
        /\ GetData(caches[c], 0) = {300}
        /\ GetData(caches[c], 1) = {100}


----------------------------------------------------------------------------
(* Properties of add_tombstone, checked under SpecTombstone *)

\* C20: at any time at most one add_tombstone call on a ColumnFile is
\* between the opening of the file's tombstone and the end of its flush.
C20_OneWriterPerFile ==
    \A p, q \in 1..MaxCallers :
        (p # q /\ tomb.calls[p].pc # "idle" /\ tomb.calls[q].pc # "idle")
            => tomb.calls[p].file # tomb.calls[q].file


----------------------------------------------------------------------------
(* Properties of the ColumnFiles, checked under SpecFiles *)

\* C21: remove_file is called at most once for a ColumnFile; it is called
\* in the step that drops the file's last handle, exactly when the file was
\* marked deleted before; a file some Version, SuperVersion or CompactReq
\* refers to has not been unlinked; a file never marked deleted is dropped
\* without remove_file.
C21_UnlinkedOnceAtLastDrop ==
    [][/\ \A h \in DOMAIN files :
             /\ unlinked'[h] <= 1
             /\ unlinked'[h] >= unlinked[h]
             /\ unlinked'[h] > unlinked[h]
                   => files[h] # Dropped /\ files[h].deleted /\ files'[h] = Dropped
             /\ (files[h] # Dropped /\ files'[h] = Dropped)
                   => unlinked'[h] = DropColumnFile(files[h])
             /\ h \in LiveFiles(World)' => files'[h] # Dropped /\ unlinked'[h] = 0
       /\ \A h \in DOMAIN files' \ DOMAIN files : unlinked'[h] = 0]_vars

\* a file marked deleted by a compaction edit has been unlinked: the Version
\* built from the edit was installed and nothing refers to the file any more
C21_Witness ==
    /\ tsf.super_version_id > 0
    /\ \E h \in DOMAIN files : unlinked[h] = 1 /\ files[h] = Dropped

\* C23: the deleted and compacting flags of a ColumnFile are false when the
\* object is built, and no step sets a flag that is true back to false.
C23_FlagsMonotonic ==
    [][/\ \A h \in DOMAIN files :
             (files[h] # Dropped /\ files'[h] # Dropped)
                => /\ files[h].deleted => files'[h].deleted
                   /\ files[h].compacting => files'[h].compacting
       /\ \A h \in DOMAIN files' \ DOMAIN files :
             files'[h] # Dropped => ~files'[h].deleted /\ ~files'[h].compacting]_vars

\* a file that was being compacted has been marked deleted and is still
\* marked as being compacted
C23_Witness ==
    \E h \in DOMAIN files : files[h] # Dropped /\ files[h].deleted /\ files[h].compacting


----------------------------------------------------------------------------
(* Invariants of the levels of a Version, checked under SpecEdits *)

\* no file_id is listed by two levels of Version v
OneLevelPerFile(heap, v) ==
    \A i, j \in DOMAIN v.levels_info :
        i # j => FileIdSet(heap, v.levels_info[i]) \cap FileIdSet(heap, v.levels_info[j]) = {}

\* the Versions copy_apply_version_edits has built from the source Version
BuiltVersions ==
    {o[1].version : o \in {pending, again, stepwise} \ {None}}

\* every add_files entry of the batch carries a file_id that no file of
\* the source Version and no other add_files entry carries
AddsAreNewFiles ==
    LET adds == AllAddFiles(pending[1].edits)
    IN /\ \A k \in DOMAIN adds :
             adds[k].file_id \notin {files[h].file_id : h \in VersionFiles(Src)}
       /\ \A k, l \in DOMAIN adds : k # l => adds[k].file_id # adds[l].file_id

\* C22 (as claimed): in every Version built from the source Version by
\* copy_apply_version_edits a file_id is listed by at most one level.
C22_OneLevelPerFile ==
    \A v \in BuiltVersions : OneLevelPerFile(files, v)

\* C22: when every add_files entry carries a file_id that is new to the
\* source Version and to the rest of the batch, a file_id is listed by at
\* most one level of every Version built, in one call or edit by edit.
C22_OneLevelPerNewFile ==
    (pending # None /\ AddsAreNewFiles) =>
        \A v \in BuiltVersions : OneLevelPerFile(files, v)

\* a batch that adds a new file to one level was applied to a Version
\* holding a file in another level
C22_Witness ==
    /\ stepwise # None
    /\ AddsAreNewFiles
    /\ \E i, j \in 1..NumLevels :
          /\ i # j
          /\ Fresh(i) # {}
          /\ Survivors(j) # {}


\* the Versions of the harness: the source Version and those built from it
HarnessVersions == {versions[tsf.version]} \cup BuiltVersions

\* the file_ids of the files list of a level, in list order
FileIdsOf(heap, lvl) == [k \in DOMAIN lvl.files |-> heap[lvl.files[k]].file_id]

\* no add_files entry for level i carries the file_id of a surviving file
\* of the level or of another add_files entry for the level
NoIdPushedTwice(i) ==
    LET adds == AddsFor(i)
        kept == {files[h].file_id : h \in Survivors(i)}
    IN /\ \A k \in DOMAIN adds : adds[k].file_id \notin kept
       /\ \A k, l \in DOMAIN adds : k # l => adds[k].file_id # adds[l].file_id

\* C24 (as claimed): the files list of every level, built by
\* push_compact_meta and push_column_file calls, is sorted strictly
\* ascending by file_id.
C24_StrictlyAscending ==
    \A v \in HarnessVersions : \A i \in DOMAIN v.levels_info :
        LET ids == FileIdsOf(files, v.levels_info[i])
        IN \A k, l \in DOMAIN ids : k < l => ids[k] < ids[l]

\* C24: the files list of every level is sorted ascending by file_id, and
\* no two entries of a level share a file_id when no file_id was pushed to
\* the level twice.
C24_Ascending ==
    /\ \A v \in HarnessVersions : \A i \in DOMAIN v.levels_info :
          LET ids == FileIdsOf(files, v.levels_info[i])
          IN \A k, l \in DOMAIN ids : k < l => ids[k] <= ids[l]
    /\ pending # None =>
          \A i \in 1..NumLevels :
              NoIdPushedTwice(i) =>
                  LET ids == FileIdsOf(files, Built.levels_info[i])
                  IN \A k, l \in DOMAIN ids : k < l => ids[k] < ids[l]

\* a level of the Version built holds two files that were pushed in
\* descending order of file_id
C24_Witness ==
    /\ pending # None
    /\ \E i \in 1..NumLevels :
          /\ NoIdPushedTwice(i)
          /\ Len(Built.levels_info[i].files) >= 2
          /\ Built.levels_info[i].files[1] > Built.levels_info[i].files[2]


\* the least of the numbers of set, or otherwise when set is empty
LeastOf(set, otherwise) ==
    IF set = {} THEN otherwise ELSE CHOOSE n \in set : \A m \in set : n <= m

GreatestOf(set, otherwise) ==
    IF set = {} THEN otherwise ELSE CHOOSE n \in set : \A m \in set : n >= m

\* C25: the time_range of every level, built from init by push_compact_meta,
\* push_column_file and update_time_range, spans from the least min_ts to
\* the greatest max_ts of the files the level lists, and is
\* (Timestamp::MAX, Timestamp::MIN) when the level lists no file.
C25_TimeRangeIsMerge ==
    \A v \in HarnessVersions : \A i \in DOMAIN v.levels_info :
        LET fs == SeqRange(v.levels_info[i].files)
        IN v.levels_info[i].time_range =
              TimeRangeNew(LeastOf({files[h].time_range.min_ts : h \in fs}, TimestampMAX),
                           GreatestOf({files[h].time_range.max_ts : h \in fs}, TimestampMIN))

\* the Version built has a level with two files and a level that lost the
\* files it had in the source
C25_Witness ==
    /\ pending # None
    /\ \E i \in 1..NumLevels : Len(Built.levels_info[i].files) >= 2
    /\ \E j \in 1..NumLevels :
          Src.levels_info[j].files # <<>> /\ Built.levels_info[j].files = <<>>

\* the sum of the sizes of the files fs lists
RECURSIVE SizeSum(_, _)
SizeSum(heap, fs) ==
    IF fs = <<>> THEN 0 ELSE heap[fs[1]].size + SizeSum(heap, SubSeq(fs, 2, Len(fs)))

\* C26: the cur_size of every level, built from init by push_compact_meta
\* and push_column_file, is the sum of the sizes of the files the level
\* lists; the files an edit dropped from the level are not counted.
C26_CurSizeIsSum ==
    \A v \in HarnessVersions : \A i \in DOMAIN v.levels_info :
        v.levels_info[i].cur_size = SizeSum(files, v.levels_info[i].files)

\* an edit dropped one file of a level and kept another: the level of the
\* Version built is smaller than the source level
C26_Witness ==
    /\ pending # None
    /\ \E i \in 1..NumLevels :
          /\ Survivors(i) # {}
          /\ Survivors(i) # SeqRange(Src.levels_info[i].files)
          /\ Built.levels_info[i].cur_size < Src.levels_info[i].cur_size


----------------------------------------------------------------------------
(* Properties of TimeRange, checked under SpecTimeRange *)

Compared == probe # None /\ "a_overlaps_b" \in DOMAIN probe[1]

\* C27 (as claimed): for all TimeRanges a and b, the
\* (Timestamp::MAX, Timestamp::MIN) of an empty level included,
\* a.includes(b) implies a.overlaps(b).
C27_IncludesImpliesOverlaps ==
    Compared => (probe[1].a_includes_b => probe[1].a_overlaps_b)

\* C27: for all TimeRanges a and b with b.min_ts <= b.max_ts,
\* a.includes(b) implies a.overlaps(b).
C27_IncludesNonEmptyImpliesOverlaps ==
    (Compared /\ probe[1].b.min_ts <= probe[1].b.max_ts)
        => (probe[1].a_includes_b => probe[1].a_overlaps_b)

\* a range has been found to include and to overlap another range that is
\* not the whole of it
C27_Witness ==
    /\ Compared
    /\ probe[1].a # probe[1].b
    /\ probe[1].b.min_ts < probe[1].b.max_ts
    /\ probe[1].a_includes_b
    /\ probe[1].a_overlaps_b

\* C28: for all TimeRanges a and b, a.overlaps(b) = b.overlaps(a).
C28_OverlapsSymmetric ==
    Compared => (probe[1].a_overlaps_b = probe[1].b_overlaps_a)

\* two different ranges that share only an end point have been found to
\* overlap
C28_Witness ==
    /\ Compared
    /\ probe[1].a.min_ts < probe[1].a.max_ts
    /\ probe[1].a.max_ts = probe[1].b.min_ts
    /\ probe[1].b.min_ts < probe[1].b.max_ts
    /\ probe[1].a_overlaps_b


----------------------------------------------------------------------------
(* Properties of get_version_edit, checked under SpecVersionEdit *)

Snapshot == probe # None /\ "version_edit" \in DOMAIN probe[1]

\* the levels of the Version that LevelInfo::with_compact_metas builds from
\* add_files alone
Rebuilt(add_files) ==
    LET r == WithCompactMetas(<<>>, InitLevels(TfId), add_files)
    IN VersionEntries(r.heap, r.levels)

\* the number of files the levels list
RECURSIVE CountEntries(_, _)
CountEntries(levels, i) ==
    IF i > Len(levels) THEN 0 ELSE Len(levels[i]) + CountEntries(levels, i + 1)

\* C29: the edit get_version_edit(last_seq, name) returns is an add-vnode
\* edit that lists every file of the current Version exactly once, each with
\* high_seq = last_seq, so that its add_files applied to an empty Version
\* give, level by level, the same file ids, sizes, time ranges and is_delta.
C29_EditReproducesVersion ==
    Snapshot =>
        LET e == probe[1].version_edit
        IN /\ e.add_tsf /\ ~e.del_tsf /\ e.del_files = <<>>
           /\ e.tsf_name = probe[1].tsf_name
           /\ Len(e.add_files) = CountEntries(probe[1].levels, 1)
           /\ \A k \in DOMAIN e.add_files : e.add_files[k].high_seq = probe[1].last_seq
           /\ Rebuilt(e.add_files) = probe[1].levels

\* an edit has been taken of a Version, installed after recovery, that lists
\* files in more than one level
C29_Witness ==
    /\ Snapshot
    /\ tsf.super_version_id > 0
    /\ Cardinality({i \in DOMAIN probe[1].levels : probe[1].levels[i] # <<>>}) > 1
    /\ Len(probe[1].version_edit.add_files) > 1


----------------------------------------------------------------------------
(* Properties of read_column_file, checked under SpecScan *)

Scanned == probe # None /\ "scan" \in DOMAIN probe[1]

\* a call of the scan on the file system failed
ScanFailed ==
    \E k \in DOMAIN probe[1].scan.attempts : ~probe[1].scan.attempts[k].ok

\* what the scans return in which no call fails
ErrorFreeReturns ==
    {ReadColumnFileOp(probe[1].heap, probe[1].version.levels_info[i], time_range,
                      NoFailure).data :
        i \in 1..NumLevels, time_range \in ScanRanges}

\* C30: when opening a file's reader or reading one of its data blocks
\* fails during the scan of a level, the scan of the level ends with the
\* failing call, the caller can tell what was returned from what a scan
\* without a failure returns, and the Version scanned is as it was.
C30_ScanErrorsAbortAndAreReported ==
    (Scanned /\ ScanFailed) =>
        /\ \A k \in DOMAIN probe[1].scan.attempts :
              ~probe[1].scan.attempts[k].ok => k = Len(probe[1].scan.attempts)
        /\ probe[1].scan.data \notin ErrorFreeReturns
        /\ versions[tsf.version] = probe[1].version


----------------------------------------------------------------------------
(* The published SuperVersion and the vnode's own fields, checked under    *)
(* Spec                                                                    *)

\* C31: after every operation of the vnode the published SuperVersion has
\* the vnode's mut_cache as its mutable cache, the vnode's immut_cache as
\* its immutable list and the vnode's Version as its Version.
C31_PublishedConsistent ==
    /\ Published.caches.mut_cache = tsf.mut_cache
    /\ Published.caches.immut_cache = tsf.immut_cache
    /\ Published.version = tsf.version


\* C32: in every interleaving of put_points with the rotations and the
\* flush requests, the cache a put_points writes to is the vnode's mutable
\* cache, is not in the vnode's immutable list and is not flushing.
C32_PutIntoMutable ==
    [][next_seq' # next_seq =>
          \A c \in DOMAIN caches :
              caches'[c] # caches[c] =>
                  /\ c = tsf.mut_cache
                  /\ c \notin SeqRange(tsf.immut_cache)
                  /\ ~caches[c].flushing]_vars


\* the caches of list that list2 still holds, in the order of list
StillIn(list, list2) == SelectSeq(list, LAMBDA mem : mem \in SeqRange(list2))

\* C33: flush_req removes from the immutable list exactly the caches whose
\* flushed flag is set, keeps the others in their order, and publishes a new
\* SuperVersion if and only if it removed a cache; and a step of the vnode
\* that removes a cache from the immutable list removes exactly the flushed
\* ones and leaves the others at the front of the list in their order.
C33_SweepOnlyFlushed ==
    /\ [](\A force \in BOOLEAN :
            LET r == FlushReqOp(tsf, svs, caches, force)
                kept == SelectSeq(tsf.immut_cache, LAMBDA mem : ~caches[mem].flushed)
            IN /\ r.tsf.immut_cache = kept
               /\ r.tsf.super_version # tsf.super_version <=> kept # tsf.immut_cache)
    /\ [][LET kept == StillIn(tsf.immut_cache, tsf'.immut_cache)
          IN /\ SubSeq(tsf'.immut_cache, 1, Len(kept)) = kept
             /\ kept # tsf.immut_cache =>
                   /\ kept = SelectSeq(tsf.immut_cache, LAMBDA mem : ~caches[mem].flushed)
                   /\ tsf'.super_version # tsf.super_version]_vars

\* a flushed cache has left the vnode's immutable list, which holds another
\* cache
C33_Witness ==
    /\ \E c \in DOMAIN caches : c \notin VnodeCaches
    /\ tsf.immut_cache # <<>>


\* C34: switch_to_immutable puts the mutable cache at the end of the
\* immutable list, whose caches are thus listed from the oldest to the
\* newest; makes a new empty cache, created with the vnode's seq_no and
\* max_buffer_size, the mutable one; leaves the Version as it is; and
\* publishes a SuperVersion holding the new cache and the list.
C34_SwitchToImmutable ==
    /\ \A i, j \in DOMAIN tsf.immut_cache : i < j => tsf.immut_cache[i] < tsf.immut_cache[j]
    /\ LET r == SwitchToImmutableOp(tsf, svs, caches)
           new == r.tsf.mut_cache
           pub == r.svs[r.tsf.super_version]
       IN /\ r.tsf.immut_cache = Append(tsf.immut_cache, tsf.mut_cache)
          /\ new \notin DOMAIN caches
          /\ r.caches[new] = MemCacheNew(tsf.tf_id, MaxBufferSize, tsf.seq_no)
          /\ r.caches[new].rows = {}
          /\ \A c \in DOMAIN caches : r.caches[c] = caches[c]
          /\ r.tsf.version = tsf.version
          /\ r.tsf.seq_no = tsf.seq_no
          /\ r.tsf.super_version # tsf.super_version
          /\ pub.caches = CacheGroup(new, Append(tsf.immut_cache, tsf.mut_cache))
          /\ pub.version = tsf.version

\* two rotations have been made: the immutable list holds two caches, the
\* later one with rows written after the first rotation, and the published
\* SuperVersion holds the list and an empty mutable cache
C34_Witness ==
    /\ Len(tsf.immut_cache) = 2
    /\ caches[tsf.immut_cache[2]].rows # {}
    /\ caches[tsf.mut_cache].rows = {}
    /\ Published.caches = CacheGroup(tsf.mut_cache, tsf.immut_cache)


\* the Versions handed to new_version: the vnode's Version with each
\* last_seq up to the sequence number of the last write
NewVersionInputs == {[versions[tsf.version] EXCEPT !.last_seq = s] : s \in 0..MaxSeq}

\* C35: new_version(v) makes v the vnode's Version, publishes a new
\* SuperVersion carrying v, and sets seq_no to v.last_seq, lower than before
\* or not; the mutable cache and the immutable list stay as they are, in the
\* vnode and in the SuperVersion published, the caches already flushed
\* included.
C35_NewVersion ==
    \A v \in NewVersionInputs :
        LET version == Len(versions) + 1
            r == NewVersionOp(tsf, svs, version, v)
            pub == r.svs[r.tsf.super_version]
        IN /\ r.tsf.version = version
           /\ r.tsf.seq_no = v.last_seq
           /\ r.tsf.super_version # tsf.super_version
           /\ r.tsf.super_version \notin DOMAIN svs
           /\ pub.version = version
           /\ pub.version_number = tsf.super_version_id + 1
           /\ r.tsf.mut_cache = tsf.mut_cache
           /\ r.tsf.immut_cache = tsf.immut_cache
           /\ pub.caches = CacheGroup(tsf.mut_cache, tsf.immut_cache)
           /\ \A s \in DOMAIN svs : r.svs[s] = svs[s]

\* new_version has installed a Version with last_seq above 0 while a cache
\* already flushed was in the immutable list, and the SuperVersion it
\* published holds that cache
C35_Witness ==
    /\ tsf.version > 1
    /\ tsf.seq_no > 0
    /\ Published.version = tsf.version
    /\ \E i \in DOMAIN Published.caches.immut_cache :
          caches[Published.caches.immut_cache[i]].flushed


----------------------------------------------------------------------------
(* The way out of the immutable list, checked under SpecSweep *)

----------------------------------------------------------------------------
(* check_to_flush on a cache that is not full, checked under SpecFlush *)

\* C37: when the mutable cache of the published SuperVersion is not full,
\* check_to_flush leaves the vnode, its caches and their flags, the
\* SuperVersions and the flush channel as they are, whatever the number of
\* immutable caches waiting.
C37_NotFullNoOp ==
    ~IsFull(caches[Published.caches.mut_cache]) =>
        CheckToFlushOp(tsf, svs, caches, chan)
            = [tsf |-> tsf, svs |-> svs, caches |-> caches, chan |-> chan]

\* the mutable cache of the published SuperVersion is not full while
\* max_immutable_number immutable caches wait unselected and the channel is
\* empty
C37_Witness ==
    /\ ~IsFull(caches[Published.caches.mut_cache])
    /\ Len(Unselected(caches, tsf.immut_cache)) >= MaxImmutableNumber
    /\ chan = <<>>


----------------------------------------------------------------------------
(* max_level_ts of the Versions built, checked under SpecEdits *)

\* C38: the max_level_ts of a Version that copy_apply_version_edits returns
\* is the greatest max_ts of the files of its levels, and Timestamp::MIN
\* when it has no file; the max_level_ts of the source Version is not kept.
C38_MaxLevelTs ==
    \A v \in BuiltVersions :
        v.max_level_ts
            = GreatestOf({files[h].time_range.max_ts : h \in VersionFiles(v)}, TimestampMIN)

\* the edits dropped the file with the greatest max_ts and kept another: the
\* Version built has a lower max_level_ts than its source
C38_Witness ==
    /\ pending # None
    /\ VersionFiles(Built) # {}
    /\ Built.max_level_ts < Src.max_level_ts


\* the blocks of the files fs whose read does not fail under io, in the
\* order of the files and of their blocks
RECURSIVE BlocksRead(_, _, _)
BlocksRead(heap, fs, io) ==
    IF fs = <<>> THEN <<>>
    ELSE SelectSeq([b \in 1..MaxBlocks |-> [file_id |-> heap[fs[1]].file_id, block |-> b]],
                   LAMBDA blk : io.fail_block # <<blk.file_id, blk.block>>)
         \o BlocksRead(heap, SubSeq(fs, 2, Len(fs)), io)

\* C39: read_column_file opens no file that is marked deleted or whose time
\* range does not overlap the range asked for; when the open of one of the
\* other files fails it stops there and returns an empty result, the blocks
\* collected from the files before included; when no open fails it returns
\* the blocks it read from the other files.
C39_SkipsAndEmptiesOnOpenFailure ==
    Scanned =>
        LET p == probe[1]
            lvl == p.version.levels_info[p.level]
            rest == SelectSeq(lvl.files,
                              LAMBDA h : /\ ~p.heap[h].deleted
                                         /\ Overlaps(p.heap[h].time_range, p.time_range))
            opens == SelectSeq(p.scan.attempts, LAMBDA a : a.call = "open")
        IN /\ Len(opens) <= Len(rest)
           /\ \A k \in DOMAIN opens : opens[k].file_id = p.heap[rest[k]].file_id
           /\ IF \E k \in DOMAIN opens : ~opens[k].ok
              THEN /\ ~opens[Len(opens)].ok
                   /\ ~p.scan.attempts[Len(p.scan.attempts)].ok
                   /\ \A k \in 1..(Len(opens) - 1) : opens[k].ok
                   /\ p.scan.data = <<>>
                   /\ p.scan.logged
              ELSE /\ Len(opens) = Len(rest)
                   /\ p.scan.data = BlocksRead(p.heap, rest, p.io)

\* the blocks of one file of a level were read before the open of the next
\* file failed, and nothing was returned
C39_Witness ==
    /\ Scanned
    /\ \E k \in DOMAIN probe[1].scan.attempts :
          /\ probe[1].scan.attempts[k].call = "get_data_block"
          /\ probe[1].scan.attempts[k].ok
    /\ ~probe[1].scan.attempts[Len(probe[1].scan.attempts)].ok
    /\ probe[1].scan.attempts[Len(probe[1].scan.attempts)].call = "open"
    /\ probe[1].scan.data = <<>>


----------------------------------------------------------------------------
(* Properties of the RemoteMetaClient, checked under SpecMeta *)

\* the cache after a response with metadata d: it took d, which is
\* strictly newer, or it is as it was
TookIfNewer(after, before, d) ==
    IF d.version > before.version THEN after = d ELSE after = before

\* C40: the version of the tenant metadata the RemoteMetaClient caches
\* never decreases, whatever the order in which the watch_data thread, the
\* first sync and the responses to create_db, create_table, update_table
\* and create_bucket are handled, and the cache changes only when its
\* version increases; the metadata of a full load, of the sync and of a
\* write response replaces the cache exactly when its version is strictly
\* newer; an incremental delta is applied exactly when the cached version
\* v has ver_range.0 <= v < ver_range.1, and the cached version is then
\* ver_range.1
C40_CachedVersionMonotone ==
    /\ [](LET data == meta_client.data
          IN /\ \A delta \in Deltas :
                   LET after == WatchDataApply(data, delta)
                   IN IF delta.full_load
                      THEN TookIfNewer(after, data, delta.update)
                      ELSE IF delta.ver_range[1] <= data.version /\ data.version < delta.ver_range[2]
                           THEN /\ after.version = delta.ver_range[2]
                                /\ after.dbs = (data.dbs \cup delta.update.dbs) \ delta.delete.dbs
                           ELSE after = data
             /\ \A rsp \in MetaResponses :
                   /\ rsp.ok =>
                         /\ TookIfNewer(RemoteCreateDbOp(data, rsp), data, rsp.val.data)
                         /\ TookIfNewer(RemoteCreateTableOp(data, rsp), data, rsp.val.data)
                         /\ TookIfNewer(RemoteUpdateTableOp(data, rsp), data, rsp.val.data)
                         /\ TookIfNewer(RemoteCreateBucketOp(data, rsp), data, rsp.val.data)
                         /\ SyncAllTenantMetadataOp(data, rsp) \in {data, rsp.val.data}
                   /\ SyncAllTenantMetadataOp(data, rsp).version >= data.version
                   /\ ~rsp.ok =>
                         /\ RemoteCreateDbOp(data, rsp) = data
                         /\ RemoteCreateTableOp(data, rsp) = data
                         /\ RemoteUpdateTableOp(data, rsp) = data
                         /\ RemoteCreateBucketOp(data, rsp) = data
                         /\ SyncAllTenantMetadataOp(data, rsp) = data)
    /\ [][/\ meta_client'.data.version >= meta_client.data.version
          /\ meta_client'.data # meta_client.data =>
                meta_client'.data.version > meta_client.data.version]_vars

\* the cache moved on to a newer version while a watch_tenant call that
\* was sent with an older one and a write are still unanswered, and a
\* delta whose range holds the cached version would now be applied
C40_Witness ==
    /\ meta_client.pc = "watch_tenant"
    /\ meta_client.cmd3 < meta_client.data.version
    /\ meta_client.writes # {}
    /\ meta_client.data.dbs # {}
    /\ \E delta \in Deltas :
          /\ ~delta.full_load
          /\ WatchDataApply(meta_client.data, delta).version > meta_client.data.version

====
